---- MODULE Spec2Model ----
(***************************************************************************)
(* A model of gator's CPU identification core (cpu_utils::readCpuInfo,     *)
(* cpu_utils::parseProcCpuInfo) and of its perf event-group configurer     *)
(* (perf_event_group_configurer_t).                                        *)
(*                                                                         *)
(* Bit masks whose bits are distinct single-bit flags (sample_type,        *)
(* read_format) are sets of flag names: | is \cup and & ~m is \ m.         *)
(* cpu ids, where bits of different values overlap, are integers and are   *)
(* combined with BitOr.                                                    *)
(***************************************************************************)
EXTENDS Integers, Sequences, FiniteSets, TLC

VARIABLES
    \* ---- perf event-group configurer
    config,            \* perf_event_group_configurer_config_t (immutable part)
    dummyKeyCounter,   \* config.dummyKeyCounter
    groupType,         \* identifier.getType()
    events,            \* state.events
    tracker,           \* calls made on the attr_to_key_mapping_tracker_t, in order
    call,              \* the last call made on the configurer and what it returned
    added,             \* per element of events: the arguments of the addEvent that appended it,
                       \* and what that addEvent returned
    drawn,             \* history: the keys nextDummyKey returned, in order
    groups,            \* history: the configurers built over config before this one
    \* ---- readCpuInfo
    ignoreOffline,     \* argument of readCpuInfo
    wantsHardwareName, \* argument of readCpuInfo
    cpuIds,            \* the span readCpuInfo fills, indexed by cpu
    properties,        \* what each core reports when it is asked (the target's hardware)
    cpuinfo,           \* the lines of /proc/cpuinfo
    orch,              \* where the thread that runs readCpuInfo is
    thread,            \* per cpu: where its PerCoreIdentificationThread is
    mutex,             \* std::mutex mutex: the set of its holders
    identificationThreadCallbackCounter,
    collected_properties,
    timedOut,          \* cv.wait_for returned false
    shutdown,          \* perCoreThreads is being destroyed
    cpuToCluster,
    clusterToCpuIds,
    cpuToCpuIds,
    hardwareName,      \* what readCpuInfo returns
    snapshot,          \* history: collected_properties when the processing lock was taken
    unguarded,         \* history: the map or the counter was accessed without the mutex
    parsedCpuIds,      \* history: cpuIds as parseProcCpuInfo left it
    \* ---- parseProcCpuInfo, line by line
    justGetHardwareName, \* argument of parseProcCpuInfo
    parser,            \* the locals of parseProcCpuInfo and the span it writes
    section,           \* history: what the current section held, the sections completed
    fileHistory,       \* history: the lines read of the file, the span as it was handed in
    \* ---- calculate_aux_watermark
    watermarkCall,     \* the arguments of a call and, once it has returned, its result
    \* ---- getMaxCoreNum
    maxCore,           \* the directory, the entries readdir has yet to return, maxCoreNum
    \* ---- PerfAttrsBuffer
    buffer,            \* the member buffer: its size, the frames ended, the open frame
    marshalCall,       \* history: the last call made on the PerfAttrsBuffer
    counters,          \* history: the COUNTERS record begun last, and what was asked since
    \* ---- agent_workers_process_manager_t
    agent_workers,     \* the pids of the agent workers stored
    created_any,
    terminated,
    io_context,        \* "running", or "stopped" once io_context.stop() was called
    strand,            \* the handlers posted on the strand and not yet run
    agentState,        \* per agent: how far async_add_agent and the agent process have got
    joinRequested,     \* join() was called
    notified           \* history: the calls of parent.on_agent_thread_terminated

pegVars == <<config, dummyKeyCounter, groupType, events, tracker, call, added, drawn, groups>>

cpuVars ==
    <<ignoreOffline, wantsHardwareName, cpuIds, properties, cpuinfo, orch, thread, mutex,
      identificationThreadCallbackCounter, collected_properties, timedOut, shutdown,
      cpuToCluster, clusterToCpuIds, cpuToCpuIds, hardwareName, snapshot, unguarded,
      parsedCpuIds>>

parseVars == <<justGetHardwareName, parser, section, fileHistory>>

attrsVars == <<buffer, marshalCall, counters>>

agentVars ==
    <<agent_workers, created_any, terminated, io_context, strand, agentState, joinRequested,
      notified>>

auxVars == <<watermarkCall, maxCore, attrsVars, agentVars>>

vars == <<pegVars, cpuVars, parseVars, auxVars>>

\* there is no PerfAttrsBuffer
AttrsIdle == buffer = <<>> /\ marshalCall = <<>> /\ counters = <<>>

\* calculate_aux_watermark and getMaxCoreNum are not running
\* there is no agent worker manager
AgentsIdle ==
    /\ agent_workers = {}
    /\ created_any = FALSE
    /\ terminated = FALSE
    /\ io_context = "idle"
    /\ strand = <<>>
    /\ agentState = <<>>
    /\ joinRequested = FALSE
    /\ notified = 0

AuxIdle == watermarkCall = <<>> /\ maxCore = <<>> /\ AttrsIdle /\ AgentsIdle

\* readCpuInfo is not running
CpuIdle ==
    /\ ignoreOffline = FALSE
    /\ wantsHardwareName = FALSE
    /\ cpuIds = <<>>
    /\ properties = <<>>
    /\ cpuinfo = <<>>
    /\ orch = "idle"
    /\ thread = <<>>
    /\ mutex = {}
    /\ identificationThreadCallbackCounter = 0
    /\ collected_properties = <<>>
    /\ timedOut = FALSE
    /\ shutdown = FALSE
    /\ cpuToCluster = <<>>
    /\ clusterToCpuIds = <<>>
    /\ cpuToCpuIds = <<>>
    /\ hardwareName = ""
    /\ snapshot = <<>>
    /\ unguarded = FALSE
    /\ parsedCpuIds = <<>>

\* parseProcCpuInfo is not running
ParseIdle ==
    /\ justGetHardwareName = FALSE
    /\ parser = <<>>
    /\ section = <<>>
    /\ fileHistory = <<>>

\* ------------------------------------------------------------------------
\* Bounds of the model
\* ------------------------------------------------------------------------

\* the longest group the model builds (createCpuGroupLeader alone appends three events)
MaxEvents == 3

\* ------------------------------------------------------------------------
\* Names from k/perf_event.h and PerfEventGroupIdentifier
\* ------------------------------------------------------------------------

\* enum perf_type_id, enum perf_sw_ids: the kernel ABI's values
PERF_TYPE_SOFTWARE == 1
PERF_TYPE_TRACEPOINT == 2
PERF_TYPE_RAW == 4

PERF_COUNT_SW_CPU_CLOCK == 0
PERF_COUNT_SW_TASK_CLOCK == 1
PERF_COUNT_SW_CONTEXT_SWITCHES == 3
PERF_COUNT_SW_DUMMY == 9

PERF_SAMPLE_IP == "IP"
PERF_SAMPLE_TID == "TID"
PERF_SAMPLE_TIME == "TIME"
PERF_SAMPLE_READ == "READ"
PERF_SAMPLE_CALLCHAIN == "CALLCHAIN"
PERF_SAMPLE_ID == "ID"
PERF_SAMPLE_PERIOD == "PERIOD"
PERF_SAMPLE_RAW == "RAW"
PERF_SAMPLE_REGS_USER == "REGS_USER"
PERF_SAMPLE_IDENTIFIER == "IDENTIFIER"

PERF_FORMAT_ID == "FORMAT_ID"
PERF_FORMAT_GROUP == "FORMAT_GROUP"

CLOCK_MONOTONIC_RAW == 4

PER_CLUSTER_CPU == "PER_CLUSTER_CPU"
UNCORE_PMU == "UNCORE_PMU"
SPECIFIC_CPU == "SPECIFIC_CPU"
GLOBAL == "GLOBAL"
SPE == "SPE"

GroupTypes == {PER_CLUSTER_CPU, UNCORE_PMU, SPECIFIC_CPU, GLOBAL, SPE}

UNKNOWN_TRACEPOINT_ID == -1

NANO_SECONDS_IN_ONE_SECOND == 1000000000
NANO_SECONDS_IN_100_MS == 100000000
MAX_SPE_WATERMARK == 2097152
MIN_SPE_WATERMARK == 4096
INT_MAX == 2147483647

Min(a, b) == IF a < b THEN a ELSE b
Max(a, b) == IF a > b THEN a ELSE b

\* ------------------------------------------------------------------------
\* calculate_aux_watermark, should_exclude_kernel
\* ------------------------------------------------------------------------

\* the outcomes of the unsigned division NANO_SECONDS_IN_ONE_SECOND / 0, which is
\* undefined: AArch64's udiv yields 0, other targets trap
DivZeroOutcomes == {[trap |-> FALSE, value |-> 0], [trap |-> TRUE, value |-> 0]}

\* the outcomes of that division for a call with these arguments: only a call
\* with auxiliary data and a sample period of 0 divides by 0
DivisionOutcomes(attr, hasAuxData) ==
    IF hasAuxData /\ attr.periodOrFreq = 0
    THEN DivZeroOutcomes
    ELSE {[trap |-> FALSE, value |-> 0]}

\* bps / fraction_of_second, the uint64 value (24 * frequency) / 10.  The model
\* checker's integers are 32 bits wide, so above the frequency at which the value already
\* exceeds MAX_SPE_WATERMARK many times over (and the later min with it decides)
\* the exact quotient is replaced by 2 * frequency, still above MAX_SPE_WATERMARK.
BpsFraction(frequency) ==
    IF frequency <= 80000000 THEN (24 * frequency) \div 10
    ELSE 2 * frequency

\* mutant of calculate_aux_watermark: the preferred watermark is returned as it is
calculate_aux_watermarkUnclamped(mmap_size, count, divz) ==
    LET quotient == IF count = 0 THEN divz ELSE NANO_SECONDS_IN_ONE_SECOND \div count
        frequency == Max(quotient, 1)
    IN  Min(mmap_size \div 2, BpsFraction(frequency))

\* mutant of calculate_aux_watermark: the size of the mmap is not looked at
calculate_aux_watermarkOfRateOnly(mmap_size, count, divz) ==
    LET quotient == IF count = 0 THEN divz ELSE NANO_SECONDS_IN_ONE_SECOND \div count
        frequency == Max(quotient, 1)
    IN  Max(Min(BpsFraction(frequency), MAX_SPE_WATERMARK), MIN_SPE_WATERMARK)

\* divz is what the division yields when count is 0 and the process survives it
calculate_aux_watermark(mmap_size, count, divz) ==
    LET quotient == IF count = 0 THEN divz ELSE NANO_SECONDS_IN_ONE_SECOND \div count
        frequency == Max(quotient, 1)
        pref_watermark == Min(mmap_size \div 2, BpsFraction(frequency))
    IN  Max(Min(pref_watermark, MAX_SPE_WATERMARK), MIN_SPE_WATERMARK)

\* mutant of should_exclude_kernel: the config is compared whatever the type
should_exclude_kernelByConfig(type, cfg, exclude_requested) ==
    IF ~exclude_requested THEN FALSE
    ELSE cfg # PERF_COUNT_SW_CONTEXT_SWITCHES

should_exclude_kernel(type, cfg, exclude_requested) ==
    IF ~exclude_requested THEN FALSE
    ELSE IF type = PERF_TYPE_SOFTWARE THEN cfg # PERF_COUNT_SW_CONTEXT_SWITCHES
    ELSE TRUE

\* ------------------------------------------------------------------------
\* perf_event_group_configurer_t::initEvent
\* ------------------------------------------------------------------------

\* a value-initialised IPerfGroups::Attr
EmptyAttr ==
    [type |-> 0, config |-> 0, config1 |-> 0, config2 |-> 0, periodOrFreq |-> 0,
     sampleType |-> {}, mmap |-> FALSE, comm |-> FALSE, freq |-> FALSE, task |-> FALSE,
     context_switch |-> FALSE]

\* mutant of sampleReadMask: PERF_SAMPLE_READ is never masked
sampleReadMaskNone(cfg) == {}

sampleReadMask(cfg) ==
    IF cfg.perfConfig.is_system_wide THEN {} ELSE {PERF_SAMPLE_READ}

SampleTypeOf(cfg, attr) ==
    {PERF_SAMPLE_TIME}
    \cup (attr.sampleType \ sampleReadMask(cfg))
    \cup (IF cfg.perfConfig.has_sample_identifier
          THEN {PERF_SAMPLE_IDENTIFIER}
          ELSE {PERF_SAMPLE_TID, PERF_SAMPLE_IP, PERF_SAMPLE_ID})
    \cup (IF attr.type = PERF_TYPE_TRACEPOINT THEN {PERF_SAMPLE_PERIOD} ELSE {})
    \cup (IF cfg.perfConfig.is_system_wide /\ ~attr.context_switch THEN {} ELSE {PERF_SAMPLE_TID})
    \cup (IF attr.freq THEN {PERF_SAMPLE_PERIOD} ELSE {})

\* the CONFIG_PERF_SUPPORT_REGISTER_UNWINDING block
WithRegsUser(cfg, sample_type) ==
    IF cfg.CONFIG_PERF_SUPPORT_REGISTER_UNWINDING /\ PERF_SAMPLE_CALLCHAIN \in sample_type
    THEN sample_type \cup {PERF_SAMPLE_REGS_USER}
    ELSE sample_type

\* sample_regs_user, a 64-bit mask, by its hexadecimal text
SampleRegsUser(cfg, sample_type) ==
    IF cfg.CONFIG_PERF_SUPPORT_REGISTER_UNWINDING /\ PERF_SAMPLE_CALLCHAIN \in sample_type
    THEN (IF cfg.perfConfig.use_64bit_register_set THEN "0x1ffffffff" ELSE "0xffff")
    ELSE "0"

use_inherit(cfg, is_header) == ~(cfg.perfConfig.is_system_wide \/ is_header)

\* mutant of every_attribute_in_own_group: no event is a group of its own
every_attribute_in_own_groupNever(cfg, is_header, requires_leader) == FALSE

every_attribute_in_own_group(cfg, is_header, requires_leader) ==
    use_inherit(cfg, is_header) \/ (~requires_leader) \/ is_header

\* mutant of use_read_format_group: every leader reads its group
use_read_format_groupOfLeader(cfg, is_header, requires_leader, leader) == leader

use_read_format_group(cfg, is_header, requires_leader, leader) ==
    /\ leader
    /\ ~use_inherit(cfg, is_header)
    /\ ~every_attribute_in_own_group(cfg, is_header, requires_leader)
    /\ ~is_header

\* mutant of pinned: every event is pinned
pinnedAlways(cfg, is_header, requires_leader, leader) == 1

pinned(cfg, is_header, requires_leader, leader) ==
    IF leader \/ every_attribute_in_own_group(cfg, is_header, requires_leader) \/ is_header
    THEN 1 ELSE 0

Bit(b) == IF b THEN 1 ELSE 0

\* the attribute record as it stands at line 181, before the SPE block
PopulatedAttr(cfg, is_header, requires_leader, leader, attr, hasAuxData, divz) ==
    LET sample_type == WithRegsUser(cfg, SampleTypeOf(cfg, attr))
        exclude_kernel == should_exclude_kernel(attr.type, attr.config, cfg.excludeKernelEvents)
        inherit == Bit(use_inherit(cfg, is_header))
        pin == pinned(cfg, is_header, requires_leader, leader)
    IN  [size |-> "sizeof(perf_event_attr)",
         sample_type |-> sample_type,
         sample_regs_user |-> SampleRegsUser(cfg, SampleTypeOf(cfg, attr)),
         inherit |-> inherit,
         inherit_stat |-> inherit,
         read_format |-> IF use_read_format_group(cfg, is_header, requires_leader, leader)
                         THEN {PERF_FORMAT_ID, PERF_FORMAT_GROUP}
                         ELSE {PERF_FORMAT_ID},
         pinned |-> pin,
         disabled |-> pin,
         watermark |-> 1,
         wakeup_watermark |-> cfg.ringbuffer_config.data_buffer_size \div 2,
         use_clockid |-> Bit(cfg.perfConfig.has_attr_clockid_support),
         clockid |-> IF cfg.perfConfig.has_attr_clockid_support THEN CLOCK_MONOTONIC_RAW ELSE 0,
         type |-> attr.type,
         config |-> attr.config,
         config1 |-> attr.config1,
         config2 |-> attr.config2,
         sample_period |-> attr.periodOrFreq,
         mmap |-> Bit(attr.mmap),
         comm |-> Bit(attr.comm),
         comm_exec |-> Bit(attr.comm /\ cfg.perfConfig.has_attr_comm_exec),
         freq |-> Bit(attr.freq),
         task |-> Bit(attr.task),
         sample_id_all |-> 1,
         context_switch |-> Bit(attr.context_switch),
         exclude_kernel |-> Bit(exclude_kernel),
         exclude_hv |-> Bit(exclude_kernel),
         exclude_idle |-> Bit(exclude_kernel),
         exclude_callchain_kernel |->
             Bit(cfg.excludeKernelEvents /\ cfg.perfConfig.has_exclude_callchain_kernel),
         aux_watermark |-> IF hasAuxData
                           THEN calculate_aux_watermark(cfg.ringbuffer_config.aux_buffer_size,
                                                        attr.periodOrFreq, divz.value)
                           ELSE 0]

\* mutant of initEvent: the mapping tracker is called before the SPE block
initEventTracksEarly(cfg, is_header, requires_leader, type, leader, key, attr, hasAuxData, divz) ==
    LET a == PopulatedAttr(cfg, is_header, requires_leader, leader, attr, hasAuxData, divz)
        event == [attr |-> a, key |-> key]
    IN  IF hasAuxData /\ attr.periodOrFreq = 0 /\ divz.trap
        THEN [ret |-> FALSE, trapped |-> TRUE, event |-> event, tracked |-> <<>>]
        ELSE IF type = SPE
        THEN IF ~cfg.perfConfig.has_attr_context_switch
             THEN [ret |-> FALSE, trapped |-> FALSE, event |-> event,
                   tracked |-> <<[key |-> key, attr |-> a]>>]
             ELSE [ret |-> TRUE, trapped |-> FALSE,
                   event |-> [event EXCEPT !.attr.context_switch = 1],
                   tracked |-> <<[key |-> key, attr |-> a]>>]
        ELSE [ret |-> TRUE, trapped |-> FALSE, event |-> event,
              tracked |-> <<[key |-> key, attr |-> a]>>]

\* mutant of initEvent: an SPE event keeps the context_switch of the caller's Attr
initEventKeepsContextSwitch(cfg, is_header, requires_leader, type, leader, key, attr, hasAuxData, divz) ==
    LET a == PopulatedAttr(cfg, is_header, requires_leader, leader, attr, hasAuxData, divz)
        event == [attr |-> a, key |-> key]
    IN  IF hasAuxData /\ attr.periodOrFreq = 0 /\ divz.trap
        THEN [ret |-> FALSE, trapped |-> TRUE, event |-> event, tracked |-> <<>>]
        ELSE IF type = SPE /\ ~cfg.perfConfig.has_attr_context_switch
        THEN [ret |-> FALSE, trapped |-> FALSE, event |-> event, tracked |-> <<>>]
        ELSE [ret |-> TRUE, trapped |-> FALSE, event |-> event,
              tracked |-> <<[key |-> key, attr |-> a]>>]

\* what initEvent leaves behind: ret is its return value, event the slot it wrote,
\* tracked the calls it made on the mapping tracker; trapped is the process stopped
\* by the division in calculate_aux_watermark (line 178), the slot left as it was.
initEvent(cfg, is_header, requires_leader, type, leader, key, attr, hasAuxData, divz) ==
    LET a == PopulatedAttr(cfg, is_header, requires_leader, leader, attr, hasAuxData, divz)
        event == [attr |-> a, key |-> key]
    IN  IF hasAuxData /\ attr.periodOrFreq = 0 /\ divz.trap
        THEN [ret |-> FALSE, trapped |-> TRUE, event |-> event, tracked |-> <<>>]
        ELSE IF type = SPE
        THEN IF ~cfg.perfConfig.has_attr_context_switch
             THEN [ret |-> FALSE, trapped |-> FALSE, event |-> event, tracked |-> <<>>]
             ELSE LET e2 == [event EXCEPT !.attr.context_switch = 1]
                  IN  [ret |-> TRUE, trapped |-> FALSE, event |-> e2,
                       tracked |-> <<[key |-> key, attr |-> e2.attr]>>]
        ELSE [ret |-> TRUE, trapped |-> FALSE, event |-> event,
              tracked |-> <<[key |-> key, attr |-> a]>>]

\* ------------------------------------------------------------------------
\* perf_event_group_configurer_t: requiresLeader, addEvent, nextDummyKey,
\* createGroupLeader.  A configurer state st is
\* [events, tracker, added, dummy, drawn, ret, trapped].
\* ------------------------------------------------------------------------

\* PerfEventGroup.h is not among the sources: the kinds createGroupLeader
\* dispatches on are the ones that require a leader
requiresLeader(type) == type \in {PER_CLUSTER_CPU, UNCORE_PMU}

\* mutant of addEvent: the event is put in front of the events of the group
addEventInFront(st, cfg, type, leader, key, attr, hasAuxData, divz) ==
    IF st.trapped \/ (leader /\ st.events # <<>>) THEN [st EXCEPT !.ret = FALSE]
    ELSE IF Len(st.events) >= INT_MAX THEN [st EXCEPT !.ret = FALSE]
    ELSE LET r == initEvent(cfg, FALSE, requiresLeader(type), type, leader, key, attr,
                            hasAuxData, divz)
         IN  [st EXCEPT !.events = <<r.event>> \o st.events,
                        !.tracker = st.tracker \o r.tracked,
                        !.added = <<[leader |-> leader, key |-> key, attr |-> attr,
                                     hasAuxData |-> hasAuxData, ret |-> r.ret]>> \o st.added,
                        !.ret = r.ret,
                        !.trapped = r.trapped]

\* mutant of addEvent: a leader is accepted into a group that has events
addEventAnyLeader(st, cfg, type, leader, key, attr, hasAuxData, divz) ==
    IF st.trapped THEN [st EXCEPT !.ret = FALSE]
    ELSE IF Len(st.events) >= INT_MAX THEN [st EXCEPT !.ret = FALSE]
    ELSE LET r == initEvent(cfg, FALSE, requiresLeader(type), type, leader, key, attr,
                            hasAuxData, divz)
         IN  [st EXCEPT !.events = Append(st.events, r.event),
                        !.tracker = st.tracker \o r.tracked,
                        !.added = Append(st.added, [leader |-> leader, key |-> key, attr |-> attr,
                                                    hasAuxData |-> hasAuxData, ret |-> r.ret]),
                        !.ret = r.ret,
                        !.trapped = r.trapped]

\* addEvent; with NDEBUG the assert at line 208 is compiled out and the call returns false
addEvent(st, cfg, type, leader, key, attr, hasAuxData, divz) ==
    IF st.trapped \/ (leader /\ st.events # <<>>) THEN [st EXCEPT !.ret = FALSE]
    ELSE IF Len(st.events) >= INT_MAX THEN [st EXCEPT !.ret = FALSE]
    ELSE LET r == initEvent(cfg, FALSE, requiresLeader(type), type, leader, key, attr,
                            hasAuxData, divz)
         IN  [st EXCEPT !.events = Append(st.events, r.event),
                        !.tracker = st.tracker \o r.tracked,
                        !.added = Append(st.added, [leader |-> leader, key |-> key, attr |-> attr,
                                                    hasAuxData |-> hasAuxData, ret |-> r.ret]),
                        !.ret = r.ret,
                        !.trapped = r.trapped]

\* mutant of nextDummyKey: the counter goes up
nextDummyKeyIncreasing(st) ==
    [key |-> st.dummy,
     st |-> [st EXCEPT !.dummy = st.dummy + 1, !.drawn = Append(@, st.dummy)]]

\* nextDummyKey: the key returned, and the counter after it
nextDummyKey(st) ==
    [key |-> st.dummy,
     st |-> [st EXCEPT !.dummy = st.dummy - 1, !.drawn = Append(@, st.dummy)]]

SamplingPeriod(cfg) ==
    IF cfg.sampleRate > 0 /\ cfg.enablePeriodicSampling
    THEN NANO_SECONDS_IN_ONE_SECOND \div cfg.sampleRate
    ELSE 0

CallChain(cfg) == IF cfg.backtraceDepth > 0 THEN {PERF_SAMPLE_CALLCHAIN} ELSE {}

\* mutant of CpuLeaderAttr: context switches from perf are looked for before
\* the sched_switch tracepoint
CpuLeaderAttrContextSwitchFirst(cfg) ==
    LET base == [EmptyAttr EXCEPT !.sampleType = {PERF_SAMPLE_TID, PERF_SAMPLE_READ},
                                  !.mmap = TRUE, !.comm = TRUE, !.task = TRUE]
        sampler == {PERF_SAMPLE_TID, PERF_SAMPLE_IP, PERF_SAMPLE_READ} \cup CallChain(cfg)
    IN  IF cfg.perfConfig.has_attr_context_switch
        THEN IF cfg.perfConfig.has_count_sw_dummy
             THEN [attr |-> [base EXCEPT !.type = PERF_TYPE_SOFTWARE,
                                         !.context_switch = TRUE,
                                         !.config = PERF_COUNT_SW_DUMMY,
                                         !.periodOrFreq = 0],
                   enableTaskClock |-> FALSE]
             ELSE [attr |-> [base EXCEPT !.type = PERF_TYPE_SOFTWARE,
                                         !.context_switch = TRUE,
                                         !.config = PERF_COUNT_SW_CPU_CLOCK,
                                         !.periodOrFreq = SamplingPeriod(cfg),
                                         !.sampleType = base.sampleType \cup sampler],
                   enableTaskClock |-> FALSE]
        ELSE IF cfg.perfConfig.can_access_tracepoints /\ cfg.perfConfig.is_system_wide
        THEN [attr |-> [base EXCEPT !.type = PERF_TYPE_TRACEPOINT,
                                    !.config = cfg.schedSwitchId,
                                    !.periodOrFreq = 1,
                                    !.sampleType = base.sampleType \cup {PERF_SAMPLE_RAW}],
              enableTaskClock |-> FALSE]
        ELSE IF ~cfg.perfConfig.exclude_kernel
        THEN [attr |-> [base EXCEPT !.type = PERF_TYPE_SOFTWARE,
                                    !.config = PERF_COUNT_SW_CONTEXT_SWITCHES,
                                    !.periodOrFreq = 1,
                                    !.sampleType = base.sampleType \cup {PERF_SAMPLE_TID}],
              enableTaskClock |-> TRUE]
        ELSE [attr |-> [base EXCEPT !.type = PERF_TYPE_SOFTWARE,
                                    !.config = PERF_COUNT_SW_CPU_CLOCK,
                                    !.periodOrFreq = SamplingPeriod(cfg),
                                    !.sampleType = base.sampleType \cup sampler],
              enableTaskClock |-> FALSE]

\* the leader createCpuGroupLeader chooses (lines 252-310), and enableTaskClock
CpuLeaderAttr(cfg) ==
    LET base == [EmptyAttr EXCEPT !.sampleType = {PERF_SAMPLE_TID, PERF_SAMPLE_READ},
                                  !.mmap = TRUE, !.comm = TRUE, !.task = TRUE]
        sampler == {PERF_SAMPLE_TID, PERF_SAMPLE_IP, PERF_SAMPLE_READ} \cup CallChain(cfg)
    IN  IF cfg.perfConfig.can_access_tracepoints /\ cfg.perfConfig.is_system_wide
        THEN [attr |-> [base EXCEPT !.type = PERF_TYPE_TRACEPOINT,
                                    !.config = cfg.schedSwitchId,
                                    !.periodOrFreq = 1,
                                    !.sampleType = base.sampleType \cup {PERF_SAMPLE_RAW}],
              enableTaskClock |-> FALSE]
        ELSE IF cfg.perfConfig.has_attr_context_switch
        THEN IF cfg.perfConfig.has_count_sw_dummy
             THEN [attr |-> [base EXCEPT !.type = PERF_TYPE_SOFTWARE,
                                         !.context_switch = TRUE,
                                         !.config = PERF_COUNT_SW_DUMMY,
                                         !.periodOrFreq = 0],
                   enableTaskClock |-> FALSE]
             ELSE [attr |-> [base EXCEPT !.type = PERF_TYPE_SOFTWARE,
                                         !.context_switch = TRUE,
                                         !.config = PERF_COUNT_SW_CPU_CLOCK,
                                         !.periodOrFreq = SamplingPeriod(cfg),
                                         !.sampleType = base.sampleType \cup sampler],
                   enableTaskClock |-> FALSE]
        ELSE IF ~cfg.perfConfig.exclude_kernel
        THEN [attr |-> [base EXCEPT !.type = PERF_TYPE_SOFTWARE,
                                    !.config = PERF_COUNT_SW_CONTEXT_SWITCHES,
                                    !.periodOrFreq = 1,
                                    !.sampleType = base.sampleType \cup {PERF_SAMPLE_TID}],
              enableTaskClock |-> TRUE]
        ELSE [attr |-> [base EXCEPT !.type = PERF_TYPE_SOFTWARE,
                                    !.config = PERF_COUNT_SW_CPU_CLOCK,
                                    !.periodOrFreq = SamplingPeriod(cfg),
                                    !.sampleType = base.sampleType \cup sampler],
              enableTaskClock |-> FALSE]

\* Periodic PC sampling (lines 317-328)
AddPcFollower(st, cfg, type, leaderAttr, divz) ==
    IF (leaderAttr.config # PERF_COUNT_SW_CPU_CLOCK) /\ cfg.sampleRate > 0
       /\ cfg.enablePeriodicSampling
    THEN LET pcAttr == [EmptyAttr EXCEPT
                            !.type = PERF_TYPE_SOFTWARE,
                            !.config = PERF_COUNT_SW_CPU_CLOCK,
                            !.sampleType = {PERF_SAMPLE_TID, PERF_SAMPLE_IP, PERF_SAMPLE_READ}
                                           \cup CallChain(cfg),
                            !.periodOrFreq = NANO_SECONDS_IN_ONE_SECOND \div cfg.sampleRate]
             k == nextDummyKey(st)
         IN  addEvent(k.st, cfg, type, FALSE, k.key, pcAttr, FALSE, divz)
    ELSE [st EXCEPT !.ret = TRUE]

\* mutant of AddTaskClockFollower: the follower is added after every leader
AddTaskClockFollowerAlways(st, cfg, type, enableTaskClock, divz) ==
    LET taskClockAttr == [EmptyAttr EXCEPT !.type = PERF_TYPE_SOFTWARE,
                                           !.config = PERF_COUNT_SW_TASK_CLOCK,
                                           !.periodOrFreq = 100000,
                                           !.sampleType = {PERF_SAMPLE_TID}]
        k == nextDummyKey(st)
    IN  addEvent(k.st, cfg, type, FALSE, k.key, taskClockAttr, FALSE, divz)

\* the task clock follower (lines 330-341)
AddTaskClockFollower(st, cfg, type, enableTaskClock, divz) ==
    IF enableTaskClock
    THEN LET taskClockAttr == [EmptyAttr EXCEPT !.type = PERF_TYPE_SOFTWARE,
                                                !.config = PERF_COUNT_SW_TASK_CLOCK,
                                                !.periodOrFreq = 100000,
                                                !.sampleType = {PERF_SAMPLE_TID}]
             k == nextDummyKey(st)
         IN  addEvent(k.st, cfg, type, FALSE, k.key, taskClockAttr, FALSE, divz)
    ELSE [st EXCEPT !.ret = TRUE]

\* mutant of createCpuGroupLeader: the id of the sched_switch tracepoint is not looked at
createCpuGroupLeaderOfAnyId(st, cfg, type, divz) ==
    LET l == CpuLeaderAttr(cfg)
        s1 == addEvent(st, cfg, type, TRUE, cfg.schedSwitchKey, l.attr, FALSE, divz)
    IN  IF ~s1.ret THEN s1
        ELSE LET s2 == AddPcFollower(s1, cfg, type, l.attr, divz)
             IN  IF ~s2.ret THEN s2
                 ELSE AddTaskClockFollower(s2, cfg, type, l.enableTaskClock, divz)

createCpuGroupLeader(st, cfg, type, divz) ==
    IF cfg.perfConfig.can_access_tracepoints /\ cfg.perfConfig.is_system_wide
       /\ cfg.schedSwitchId = UNKNOWN_TRACEPOINT_ID
    THEN [st EXCEPT !.ret = FALSE]
    ELSE LET l == CpuLeaderAttr(cfg)
             s1 == addEvent(st, cfg, type, TRUE, cfg.schedSwitchKey, l.attr, FALSE, divz)
         IN  IF ~s1.ret THEN s1
             ELSE LET s2 == AddPcFollower(s1, cfg, type, l.attr, divz)
                  IN  IF ~s2.ret THEN s2
                      ELSE AddTaskClockFollower(s2, cfg, type, l.enableTaskClock, divz)

\* mutant of createUncoreGroupLeader: the period is 100 ms whatever the sample rate
createUncoreGroupLeaderFixedPeriod(st, cfg, type, divz) ==
    LET attr == [EmptyAttr EXCEPT
                     !.type = PERF_TYPE_SOFTWARE,
                     !.config = PERF_COUNT_SW_CPU_CLOCK,
                     !.sampleType = {PERF_SAMPLE_READ},
                     !.periodOrFreq = NANO_SECONDS_IN_100_MS]
        k == nextDummyKey(st)
    IN  addEvent(k.st, cfg, type, TRUE, k.key, attr, FALSE, divz)

createUncoreGroupLeader(st, cfg, type, divz) ==
    LET attr == [EmptyAttr EXCEPT
                     !.type = PERF_TYPE_SOFTWARE,
                     !.config = PERF_COUNT_SW_CPU_CLOCK,
                     !.sampleType = {PERF_SAMPLE_READ},
                     !.periodOrFreq = IF cfg.sampleRate > 0
                                      THEN NANO_SECONDS_IN_ONE_SECOND \div cfg.sampleRate
                                      ELSE NANO_SECONDS_IN_100_MS]
        k == nextDummyKey(st)
    IN  addEvent(k.st, cfg, type, TRUE, k.key, attr, FALSE, divz)

\* mutant of createGroupLeader: every kind but the CPU one gets the uncore leader
createGroupLeaderOfAnyKind(st, cfg, type, divz) ==
    IF type = PER_CLUSTER_CPU THEN createCpuGroupLeader(st, cfg, type, divz)
    ELSE createUncoreGroupLeader(st, cfg, type, divz)

createGroupLeader(st, cfg, type, divz) ==
    IF type = PER_CLUSTER_CPU THEN createCpuGroupLeader(st, cfg, type, divz)
    ELSE IF type = UNCORE_PMU THEN createUncoreGroupLeader(st, cfg, type, divz)
    ELSE [st EXCEPT !.ret = FALSE]

\* ------------------------------------------------------------------------
\* Specification Spec: one configurer, driven by its callers
\* ------------------------------------------------------------------------

\* sizes of the ring buffers (ringbuffer_config): 1 MiB of data, 64 KiB of aux
DataBufferSize == 1024 * 1024
AuxBufferSize == 64 * 1024

\* a configuration with every capability present, sampling at 1 kHz
BaseConfig ==
    [perfConfig |-> [is_system_wide |-> TRUE,
                     has_sample_identifier |-> TRUE,
                     has_attr_clockid_support |-> TRUE,
                     has_attr_comm_exec |-> TRUE,
                     has_attr_context_switch |-> TRUE,
                     has_count_sw_dummy |-> TRUE,
                     has_exclude_callchain_kernel |-> TRUE,
                     can_access_tracepoints |-> TRUE,
                     use_64bit_register_set |-> TRUE,
                     exclude_kernel |-> FALSE],
     ringbuffer_config |-> [data_buffer_size |-> DataBufferSize,
                            aux_buffer_size |-> AuxBufferSize],
     excludeKernelEvents |-> FALSE,
     backtraceDepth |-> 1,
     sampleRate |-> 1000,
     enablePeriodicSampling |-> TRUE,
     schedSwitchId |-> 42,
     schedSwitchKey |-> 0,
     dummyKeyCounter |-> -1,
     CONFIG_PERF_SUPPORT_REGISTER_UNWINDING |-> TRUE]

\* the configurations Spec starts from: every combination of the capabilities
\* that choose the group leader, with and without periodic sampling
ConfigSet ==
    { [BaseConfig EXCEPT !.perfConfig.is_system_wide = sw,
                         !.perfConfig.can_access_tracepoints = tp,
                         !.perfConfig.has_attr_context_switch = cs,
                         !.perfConfig.has_count_sw_dummy = dummy,
                         !.perfConfig.exclude_kernel = xk,
                         !.excludeKernelEvents = xk,
                         !.sampleRate = rate] :
        sw \in BOOLEAN, tp \in BOOLEAN, cs \in BOOLEAN, dummy \in BOOLEAN,
        xk \in BOOLEAN, rate \in {0, 1000} }

\* what callers ask addEvent for: a counter read with its group, a software
\* context-switch counter, an SPE event with auxiliary data
CounterAttr ==
    [EmptyAttr EXCEPT !.type = PERF_TYPE_RAW, !.config = 17,
                      !.sampleType = {PERF_SAMPLE_READ}]
SwitchesAttr ==
    [EmptyAttr EXCEPT !.type = PERF_TYPE_SOFTWARE, !.config = PERF_COUNT_SW_CONTEXT_SWITCHES,
                      !.periodOrFreq = 1, !.sampleType = {PERF_SAMPLE_READ, PERF_SAMPLE_TID}]
SpeAttr ==
    [EmptyAttr EXCEPT !.type = 8, !.config = 1, !.periodOrFreq = 1000,
                      !.sampleType = {PERF_SAMPLE_TID}]

Requests ==
    { [key |-> 1, attr |-> CounterAttr, hasAuxData |-> FALSE],
      [key |-> 2, attr |-> SwitchesAttr, hasAuxData |-> FALSE],
      [key |-> 3, attr |-> SpeAttr, hasAuxData |-> TRUE] }

NoCall ==
    [op |-> "none", is_header |-> FALSE, requires_leader |-> FALSE, leader |-> FALSE,
     key |-> 0, ret |-> TRUE, trapped |-> FALSE]

\* the configurer's state as a record, and back
St == [events |-> events, tracker |-> tracker, added |-> added, dummy |-> dummyKeyCounter,
       drawn |-> drawn, ret |-> TRUE, trapped |-> call.trapped]

Commit(st, op, leader, key) ==
    /\ events' = st.events
    /\ tracker' = st.tracker
    /\ added' = st.added
    /\ dummyKeyCounter' = st.dummy
    /\ drawn' = st.drawn
    /\ call' = [op |-> op, is_header |-> FALSE, requires_leader |-> requiresLeader(groupType),
                leader |-> leader, key |-> key, ret |-> st.ret, trapped |-> st.trapped]
    /\ UNCHANGED <<config, groupType, groups, cpuVars, parseVars, auxVars>>

Init ==
    /\ config \in ConfigSet
    /\ dummyKeyCounter = config.dummyKeyCounter
    /\ groupType \in GroupTypes
    /\ events = <<>>
    /\ tracker = <<>>
    /\ added = <<>>
    /\ drawn = <<>>
    /\ groups = <<>>
    /\ call = NoCall
    /\ CpuIdle
    /\ ParseIdle
    /\ AuxIdle

\* a caller adds an event
AddEvent ==
    /\ ~call.trapped
    /\ Len(events) < MaxEvents
    /\ \E leader \in BOOLEAN, rq \in Requests :
        \E divz \in DivisionOutcomes(rq.attr, rq.hasAuxData) :
          Commit(addEvent(St, config, groupType, leader, rq.key, rq.attr, rq.hasAuxData, divz),
                 "addEvent", leader, rq.key)

\* a caller asks for the group leader
CreateGroupLeader ==
    /\ ~call.trapped
    /\ config.dummyKeyCounter - dummyKeyCounter < MaxEvents
    /\ \E divz \in DivisionOutcomes(EmptyAttr, FALSE) :
          Commit(createGroupLeader(St, config, groupType, divz), "createGroupLeader", TRUE, 0)

Next == AddEvent \/ CreateGroupLeader

Spec == Init /\ [][Next]_vars

\* ------------------------------------------------------------------------
\* Specification SpecInitEvent: initEvent as a function of its arguments,
\* applied to a fresh slot
\* ------------------------------------------------------------------------

\* every combination of the configuration flags initEvent reads
InitEventConfigs ==
    { [BaseConfig EXCEPT !.perfConfig.is_system_wide = sw,
                         !.perfConfig.has_sample_identifier = ident,
                         !.perfConfig.has_attr_clockid_support = clk,
                         !.perfConfig.has_attr_comm_exec = exec,
                         !.perfConfig.has_attr_context_switch = cs,
                         !.perfConfig.has_exclude_callchain_kernel = xcc,
                         !.perfConfig.use_64bit_register_set = r64,
                         !.excludeKernelEvents = xk,
                         !.CONFIG_PERF_SUPPORT_REGISTER_UNWINDING = unwind] :
        sw \in BOOLEAN, ident \in BOOLEAN, clk \in BOOLEAN, exec \in BOOLEAN,
        cs \in BOOLEAN, xcc \in BOOLEAN, r64 \in BOOLEAN, xk \in BOOLEAN,
        unwind \in BOOLEAN }

\* further attributes: a frequency-based call-chain sampler, a tracepoint that
\* reads its group, an event with auxiliary data and no period, a raw counter
SamplerAttr ==
    [EmptyAttr EXCEPT !.type = PERF_TYPE_SOFTWARE, !.config = PERF_COUNT_SW_CPU_CLOCK,
                      !.periodOrFreq = 100, !.freq = TRUE, !.comm = TRUE, !.context_switch = TRUE,
                      !.sampleType = {PERF_SAMPLE_READ, PERF_SAMPLE_IP, PERF_SAMPLE_CALLCHAIN}]
TracepointAttr ==
    [EmptyAttr EXCEPT !.type = PERF_TYPE_TRACEPOINT, !.config = 42, !.periodOrFreq = 1,
                      !.sampleType = {PERF_SAMPLE_READ, PERF_SAMPLE_RAW}]
SpeNoPeriodAttr == [SpeAttr EXCEPT !.periodOrFreq = 0]
\* a raw counter whose config is the number of PERF_COUNT_SW_CONTEXT_SWITCHES
RawSwitchesAttr == [CounterAttr EXCEPT !.config = PERF_COUNT_SW_CONTEXT_SWITCHES]

EventRequests ==
    Requests \cup
    { [key |-> 4, attr |-> SamplerAttr, hasAuxData |-> FALSE],
      [key |-> 5, attr |-> TracepointAttr, hasAuxData |-> FALSE],
      [key |-> 6, attr |-> SpeNoPeriodAttr, hasAuxData |-> TRUE],
      [key |-> 7, attr |-> RawSwitchesAttr, hasAuxData |-> FALSE] }

InitInitEvent ==
    /\ config \in InitEventConfigs
    /\ dummyKeyCounter = config.dummyKeyCounter
    /\ groupType \in GroupTypes
    /\ events = <<>>
    /\ tracker = <<>>
    /\ added = <<>>
    /\ drawn = <<>>
    /\ groups = <<>>
    /\ call = NoCall
    /\ CpuIdle
    /\ ParseIdle
    /\ AuxIdle

\* initEvent(config, event, is_header, requires_leader, groupType, leader, ...)
InitEventCall ==
    /\ call.op = "none"
    /\ \E is_header \in BOOLEAN, requires_leader \in BOOLEAN, leader \in BOOLEAN,
          rq \in EventRequests :
        \E divz \in DivisionOutcomes(rq.attr, rq.hasAuxData) :
        LET r == initEvent(config, is_header, requires_leader, groupType, leader, rq.key,
                           rq.attr, rq.hasAuxData, divz)
        IN  /\ events' = <<r.event>>
            /\ tracker' = r.tracked
            /\ added' = <<[leader |-> leader, key |-> rq.key, attr |-> rq.attr,
                           hasAuxData |-> rq.hasAuxData, ret |-> r.ret]>>
            /\ call' = [op |-> "initEvent", is_header |-> is_header,
                        requires_leader |-> requires_leader, leader |-> leader,
                        key |-> rq.key, ret |-> r.ret, trapped |-> r.trapped]
            /\ UNCHANGED <<config, dummyKeyCounter, groupType, drawn, groups, cpuVars, parseVars, auxVars>>

NextInitEvent == InitEventCall

SpecInitEvent == InitInitEvent /\ [][NextInitEvent]_vars

\* ------------------------------------------------------------------------
\* Properties of the configurer
\* ------------------------------------------------------------------------

EventIndices == 1..Len(events)

\* C1 as stated: in a group whose identifier requires a leader the first event
\* has pinned = 1 and disabled = 1 and no other event has pinned set.
C1_OnlyFirstPinned ==
    (requiresLeader(groupType) /\ events # <<>>) =>
        /\ events[1].attr.pinned = 1
        /\ events[1].attr.disabled = 1
        /\ \A i \in EventIndices : i > 1 => events[i].attr.pinned = 0

\* C1 amended: in a group whose identifier requires a leader, in system-wide
\* mode an event is pinned, and disabled, exactly when it was added as the
\* leader, which only the first event can be, so no other event is pinned; in
\* application mode every event of the group is pinned and disabled.
C1_PinnedByMode ==
    requiresLeader(groupType) =>
        \A i \in EventIndices :
            /\ events[i].attr.disabled = events[i].attr.pinned
            /\ IF config.perfConfig.is_system_wide
               THEN /\ events[i].attr.pinned = Bit(added[i].leader)
                    /\ added[i].leader => i = 1
               ELSE events[i].attr.pinned = 1

\* a system-wide group with its leader, made by createGroupLeader, and followers
C1_Witness ==
    /\ requiresLeader(groupType)
    /\ config.perfConfig.is_system_wide
    /\ Len(events) = MaxEvents
    /\ added[1].leader
    /\ events[1].attr.pinned = 1
    /\ events[2].attr.pinned = 0
    /\ call.op = "addEvent"

\* C2: an event whose inherit bit is set has neither PERF_SAMPLE_READ in its
\* sample_type nor PERF_FORMAT_GROUP in its read_format, whatever the
\* configuration flags, is_header, requires_leader, leader and the caller's
\* sample type.
C2_InheritExcludesRead ==
    \A i \in EventIndices :
        events[i].attr.inherit = 1 =>
            /\ PERF_SAMPLE_READ \notin events[i].attr.sample_type
            /\ PERF_FORMAT_GROUP \notin events[i].attr.read_format

\* a leader of a group that requires one, asked to sample READ, with inherit set
C2_Witness ==
    /\ call.op = "initEvent"
    /\ call.leader /\ call.requires_leader /\ ~call.is_header
    /\ events[1].attr.inherit = 1
    /\ PERF_SAMPLE_READ \in added[1].attr.sampleType

\* C3 as stated: adding an event to an SPE group when the kernel lacks
\* attr_context_switch returns false and leaves the group's events as they were.
C3_NoPartialGroup ==
    [][(call'.op = "addEvent" /\ groupType = SPE
        /\ ~config.perfConfig.has_attr_context_switch)
       => (call'.ret = FALSE /\ events' = events)]_vars

\* ------------------------------------------------------------------------
\* cpu_utils: cpu ids and /proc/cpuinfo
\* ------------------------------------------------------------------------

\* cpuIds.size(): the number of cores of the target
NumCpus == 2

\* the most lines the line-by-line parser reads of one file
MaxLines == 4

Cpus == 0 .. NumCpus - 1

Size(ids) == Cardinality(DOMAIN ids)

\* a | b on non-negative integers. (Here and in the other recursive
\* operators the arguments of the inner application are bound as values, so
\* that they are computed once.)
RECURSIVE BitOr(_, _)
BitOr(a, b) ==
    IF a = 0 THEN b
    ELSE IF b = 0 THEN a
    ELSE (IF a % 2 = 1 \/ b % 2 = 1 THEN 1 ELSE 0)
         + 2 * (CHOOSE r \in {BitOr(x, y) : x \in {a \div 2}, y \in {b \div 2}} : TRUE)

\* cpuId |= implementer << 12, after replacing -1 by 0
setImplementer(cpuId, implementer) ==
    BitOr(IF cpuId = -1 THEN 0 ELSE cpuId, implementer * 4096)

\* cpuId |= part, after replacing -1 by 0
setPart(cpuId, part) ==
    BitOr(IF cpuId = -1 THEN 0 ELSE cpuId, part)

\* ((midr & 0xff000000) >> 12) | ((midr & 0xfff0) >> 4)
makeCpuId(midr) ==
    BitOr(((midr \div (4096 * 4096)) % 256) * 4096, (midr \div 16) % 4096)

\* size_t processor = UNKNOWN_PROCESSOR
UNKNOWN_PROCESSOR == -1

\* a < b on size_t; a negative integer stands for the value it converts to
\* (the upper half of the range)
SizeLess(a, b) == IF (a < 0) = (b < 0) THEN a < b ELSE b < 0

\* stringToInt(&value, text, 0): the texts the model's files hold, base detected
\* from the prefix
stringToInt(text) ==
    CASE text = "0" -> [ok |-> TRUE, value |-> 0]
      [] text = "1" -> [ok |-> TRUE, value |-> 1]
      [] text = "7" -> [ok |-> TRUE, value |-> 7]
      [] text = "0x41" -> [ok |-> TRUE, value |-> 65]
      [] text = "0xd03" -> [ok |-> TRUE, value |-> 3331]
      [] text = "0xd05" -> [ok |-> TRUE, value |-> 3333]
      [] OTHER -> [ok |-> FALSE, value |-> 0]

HARDWARE == "Hardware"
CPU_IMPLEMENTER == "CPU implementer"
CPU_PART == "CPU part"
PROCESSOR == "processor"

\* a line of the file: the key it starts with ("" for a line that holds only
\* the line feed), whether ": " and a value follow, and the value
Line(key, sep, text) == [key |-> key, sep |-> sep, text |-> text]

BlankLine == Line("", FALSE, "")

\* the locals of parseProcCpuInfo after the file has been opened
ParserStart(ids) ==
    [status |-> "reading",
     hardwareName |-> "",
     foundCoreName |-> FALSE,
     processor |-> UNKNOWN_PROCESSOR,
     minProcessor |-> Size(ids),
     maxProcessor |-> 0,
     foundProcessorInSection |-> FALSE,
     outOfPlaceCpuId |-> -1,
     invalidFormat |-> FALSE,
     cpuIds |-> ids]

\* if (foundHardware)
onHardware(p, just, position) ==
    IF just
    THEN [p EXCEPT !.hardwareName = position, !.status = "returned"]
    ELSE [p EXCEPT !.hardwareName = position, !.foundCoreName = TRUE]

\* if (foundCPUImplementer)
onImplementer(p, position) ==
    LET r == stringToInt(position)
    IN  IF ~r.ok THEN p
        ELSE IF p.processor # UNKNOWN_PROCESSOR
        THEN [p EXCEPT !.cpuIds[p.processor] = setImplementer(@, r.value)]
        ELSE [p EXCEPT !.outOfPlaceCpuId = setImplementer(@, r.value),
                       !.invalidFormat = TRUE]

\* if (foundCPUPart)
onPart(p, position) ==
    LET r == stringToInt(position)
    IN  IF ~r.ok THEN p
        ELSE IF p.processor # UNKNOWN_PROCESSOR
        THEN [p EXCEPT !.cpuIds[p.processor] = setPart(@, r.value)]
        ELSE [p EXCEPT !.outOfPlaceCpuId = setPart(@, r.value),
                       !.invalidFormat = TRUE]

\* mutant of onProcessor: a second processor line leaves the first one bound
onProcessorKeepsFirst(p, position) ==
    LET r == stringToInt(position)
    IN  IF p.foundProcessorInSection THEN [p EXCEPT !.invalidFormat = TRUE]
        ELSE IF r.ok /\ r.value \in DOMAIN p.cpuIds
        THEN [p EXCEPT !.processor = r.value, !.foundProcessorInSection = TRUE]
        ELSE p

\* if (foundProcessor)
onProcessor(p, position) ==
    LET r == stringToInt(position)
        processorId == IF r.ok THEN r.value ELSE -1
        q == IF r.ok
             THEN [p EXCEPT !.minProcessor = IF SizeLess(processorId, @) THEN processorId ELSE @,
                            !.maxProcessor = IF SizeLess(@, processorId) THEN processorId ELSE @]
             ELSE p
    IN  IF p.foundProcessorInSection
        THEN [q EXCEPT !.processor = UNKNOWN_PROCESSOR, !.invalidFormat = TRUE]
        ELSE IF r.ok
        THEN IF ~SizeLess(processorId, Size(p.cpuIds))
             THEN [q EXCEPT !.processor = processorId, !.status = "fatal"]
             ELSE [q EXCEPT !.processor = processorId, !.foundProcessorInSection = TRUE]
        ELSE q

\* one iteration of the while (fgets(...)) loop
ParseLine(p, just, line) ==
    IF line.key = ""
    THEN [p EXCEPT !.processor = UNKNOWN_PROCESSOR, !.foundProcessorInSection = FALSE]
    ELSE LET foundHardware == ~p.foundCoreName /\ line.key = HARDWARE
             foundCPUImplementer == line.key = CPU_IMPLEMENTER
             foundCPUPart == line.key = CPU_PART
             foundProcessor == line.key = PROCESSOR
         IN  IF ~(foundHardware \/ foundCPUImplementer \/ foundCPUPart \/ foundProcessor)
             THEN p
             ELSE IF ~line.sep
             THEN [p EXCEPT !.status = "returned"]
             ELSE IF foundHardware THEN onHardware(p, just, line.text)
             ELSE IF foundCPUImplementer THEN onImplementer(p, line.text)
             ELSE IF foundCPUPart THEN onPart(p, line.text)
             ELSE onProcessor(p, line.text)

\* mutant of ParseEof: the fill stops before maxProcessor
ParseEofExclusive(p) ==
    IF p.invalidFormat /\ p.outOfPlaceCpuId # -1 /\ ~SizeLess(p.maxProcessor, p.minProcessor)
    THEN [p EXCEPT !.status = "eof",
                   !.cpuIds = [c \in DOMAIN p.cpuIds |->
                                 IF ~SizeLess(c, p.minProcessor) /\ SizeLess(c, p.maxProcessor)
                                    /\ p.cpuIds[c] = -1
                                 THEN p.outOfPlaceCpuId ELSE p.cpuIds[c]]]
    ELSE [p EXCEPT !.status = "eof"]

\* after the loop: the values read outside a processor's section go to the
\* entries of [minProcessor, maxProcessor] that are still -1
ParseEof(p) ==
    IF p.invalidFormat /\ p.outOfPlaceCpuId # -1 /\ ~SizeLess(p.maxProcessor, p.minProcessor)
    THEN LET lo == p.minProcessor
             hi == IF SizeLess(p.maxProcessor, Size(p.cpuIds))
                   THEN p.maxProcessor + 1 ELSE Size(p.cpuIds)
         IN  [p EXCEPT !.status = "eof",
                       !.cpuIds = [c \in DOMAIN p.cpuIds |->
                                     IF ~SizeLess(c, lo) /\ SizeLess(c, hi) /\ p.cpuIds[c] = -1
                                     THEN p.outOfPlaceCpuId ELSE p.cpuIds[c]]]
    ELSE [p EXCEPT !.status = "eof"]

RECURSIVE parseLines(_, _, _)
parseLines(p, just, lines) ==
    IF p.status # "reading" THEN p
    ELSE IF lines = <<>> THEN ParseEof(p)
    ELSE CHOOSE r \in {parseLines(q, just, Tail(lines)) :
                          q \in {ParseLine(p, just, Head(lines))}} : TRUE

\* parseProcCpuInfo(justGetHardwareName, cpuIds) on a file
parseProcCpuInfo(just, ids, file) ==
    IF ~file.opens
    THEN [ParserStart(ids) EXCEPT !.status = "returned"]
    ELSE parseLines(ParserStart(ids), just, file.lines)

\* ------------------------------------------------------------------------
\* Specification SpecParse: parseProcCpuInfo reads a file line by line
\* ------------------------------------------------------------------------

\* the configurer is not in use
PegIdle ==
    /\ config = BaseConfig
    /\ dummyKeyCounter = BaseConfig.dummyKeyCounter
    /\ groupType = GLOBAL
    /\ events = <<>>
    /\ tracker = <<>>
    /\ added = <<>>
    /\ drawn = <<>>
    /\ groups = <<>>
    /\ call = NoCall

\* the lines a file is made of
CpuInfoLines ==
    { BlankLine,
      Line(PROCESSOR, TRUE, "0"),
      Line(PROCESSOR, TRUE, "1"),
      Line(PROCESSOR, TRUE, "7"),
      Line(CPU_IMPLEMENTER, TRUE, "0x41"),
      Line(CPU_IMPLEMENTER, TRUE, "junk"),
      Line(CPU_PART, TRUE, "0xd03"),
      Line(CPU_PART, TRUE, "0xd05"),
      Line(CPU_PART, FALSE, ""),
      Line(HARDWARE, TRUE, "Foo"),
      Line("BogoMIPS", TRUE, "48.00") }

\* an id a previous identification left in the span: implementer 0x41, part 0xd05
PriorCpuId == setPart(setImplementer(-1, 65), 3333)

UnknownCpuIds == [c \in Cpus |-> -1]

\* what the caller hands in: all entries unknown, or one entry already known
InitialCpuIds ==
    {UnknownCpuIds} \cup {[UnknownCpuIds EXCEPT ![k] = PriorCpuId] : k \in Cpus}

\* the indices of the lines of a section that start with a key
LinesWith(lines, key) == {i \in 1 .. Len(lines) : lines[i].key = key}

\* a section that holds one processor line, one CPU implementer line and one
\* CPU part line, all with a value that converts, the processor first and
\* within the span
WellFormed(lines) ==
    /\ Cardinality(LinesWith(lines, PROCESSOR)) = 1
    /\ Cardinality(LinesWith(lines, CPU_IMPLEMENTER)) = 1
    /\ Cardinality(LinesWith(lines, CPU_PART)) = 1
    /\ \A i \in 1 .. Len(lines) :
          lines[i].key \in {PROCESSOR, CPU_IMPLEMENTER, CPU_PART, HARDWARE}
            => lines[i].sep
    /\ \A i \in LinesWith(lines, PROCESSOR) :
          /\ stringToInt(lines[i].text).ok
          /\ stringToInt(lines[i].text).value \in Cpus
          /\ \A j \in LinesWith(lines, CPU_IMPLEMENTER) \cup LinesWith(lines, CPU_PART) :
                i < j /\ stringToInt(lines[j].text).ok

\* processor k, implementer x and part y of a well-formed section
SectionBinding(lines) ==
    [k |-> stringToInt(lines[CHOOSE i \in LinesWith(lines, PROCESSOR) : TRUE].text).value,
     x |-> stringToInt(lines[CHOOSE i \in LinesWith(lines, CPU_IMPLEMENTER) : TRUE].text).value,
     y |-> stringToInt(lines[CHOOSE i \in LinesWith(lines, CPU_PART) : TRUE].text).value]

Completed(sec) ==
    IF WellFormed(sec.lines)
    THEN sec.wellFormed \cup {SectionBinding(sec.lines)}
    ELSE sec.wellFormed

SectionStart(wellFormed, nread) ==
    [lines |-> <<>>,          \* the lines of the section so far
     bound |-> {},            \* the entries its values were written to
     invalidated |-> FALSE,   \* a second processor line was read in it
     boundAfter |-> {},       \* the entries written to after that
     wellFormed |-> wellFormed, \* the bindings of the well-formed sections completed
     nread |-> nread]         \* the lines read of the file

\* the section after parseProcCpuInfo, in state p, has read line
Noted(sec, p, line) ==
    IF line.key = ""
    THEN SectionStart(Completed(sec), sec.nread + 1)
    ELSE LET direct == /\ line.key \in {CPU_IMPLEMENTER, CPU_PART}
                       /\ line.sep
                       /\ stringToInt(line.text).ok
                       /\ p.processor # UNKNOWN_PROCESSOR
             second == line.key = PROCESSOR /\ line.sep /\ p.foundProcessorInSection
         IN  [sec EXCEPT !.lines = Append(@, line),
                         !.bound = IF direct THEN @ \cup {p.processor} ELSE @,
                         !.invalidated = @ \/ second,
                         !.boundAfter = IF direct /\ sec.invalidated
                                        THEN @ \cup {p.processor} ELSE @,
                         !.nread = @ + 1]

\* the file before its first line is read
FileStart(ids) ==
    [lines |-> <<>>,     \* the lines read
     initial |-> ids,    \* cpuIds as the caller handed it in
     bound |-> {}]       \* the entries a value line was written to as it was read

\* the file after parseProcCpuInfo, in state p, has read line
FileNoted(f, p, line) ==
    LET direct == /\ line.key \in {CPU_IMPLEMENTER, CPU_PART}
                  /\ line.sep
                  /\ stringToInt(line.text).ok
                  /\ p.processor # UNKNOWN_PROCESSOR
    IN  [f EXCEPT !.lines = Append(@, line),
                  !.bound = IF direct THEN @ \cup {p.processor} ELSE @]

InitParse ==
    /\ PegIdle
    /\ CpuIdle
    /\ AuxIdle
    /\ justGetHardwareName \in BOOLEAN
    /\ \E ids \in InitialCpuIds : parser = ParserStart(ids) /\ fileHistory = FileStart(ids)
    /\ section = SectionStart({}, 0)

\* fgets returns a line
ReadLine ==
    /\ parser.status = "reading"
    /\ section.nread < MaxLines
    /\ \E line \in CpuInfoLines :
          /\ parser' = ParseLine(parser, justGetHardwareName, line)
          /\ section' = Noted(section, parser, line)
          /\ fileHistory' = FileNoted(fileHistory, parser, line)
    /\ UNCHANGED <<justGetHardwareName, pegVars, cpuVars, auxVars>>

\* fgets returns nullptr
EndOfFile ==
    /\ parser.status = "reading"
    /\ parser' = ParseEof(parser)
    /\ section' = [section EXCEPT !.wellFormed = Completed(section)]
    /\ UNCHANGED <<fileHistory, justGetHardwareName, pegVars, cpuVars, auxVars>>

NextParse == ReadLine \/ EndOfFile

SpecParse == InitParse /\ [][NextParse]_vars

C10_WellFormedSectionBinds ==
    parser.status = "eof"
        => \A b \in section.wellFormed : parser.cpuIds[b.k] = BitOr(b.x * 4096, b.y)

\* ------------------------------------------------------------------------
\* cpu_utils::readCpuInfo and the per-core identification threads
\* ------------------------------------------------------------------------

\* PerCoreIdentificationThread::INVALID_MIDR_EL1, INVALID_PACKAGE_ID
INVALID_MIDR_EL1 == -1
INVALID_PACKAGE_ID == -1

\* the holder of the mutex that is the thread running readCpuInfo; an
\* identification thread holds it under its cpu number
Orchestrator == -1

\* MIDR_EL1 of a Cortex-A53 (0x410fd034) and of a Cortex-A57 (0x411fd070)
CortexA53Midr == 65 * 16777216 + 15 * 65536 + 3331 * 16 + 4
CortexA57Midr == 65 * 16777216 + 31 * 65536 + 3335 * 16

Properties(midr, package, siblings) ==
    [midr_el1 |-> midr, physical_package_id |-> package, core_siblings |-> siblings]

\* the targets: one cluster of cores that all report their MIDR; one cluster
\* where only core 0 does; no core reports anything; core 0 reports its MIDR
\* without a package and the others a package without MIDR; every core names
\* all cores as siblings, core 0 in package 0 and the others in package 1;
\* core 0 is alone in package 0 and the others name it a sibling in package 1
Targets ==
    { [c \in Cpus |-> Properties(CortexA53Midr, 0, Cpus)],
      [c \in Cpus |-> Properties(IF c = 0 THEN CortexA53Midr ELSE INVALID_MIDR_EL1, 0, Cpus)],
      [c \in Cpus |-> Properties(INVALID_MIDR_EL1, INVALID_PACKAGE_ID, {})],
      [c \in Cpus |-> IF c = 0 THEN Properties(CortexA57Midr, INVALID_PACKAGE_ID, {})
                                ELSE Properties(INVALID_MIDR_EL1, 1, Cpus \ {0})],
      [c \in Cpus |-> Properties(INVALID_MIDR_EL1, IF c = 0 THEN 0 ELSE 1, Cpus)],
      [c \in Cpus |-> IF c = 0 THEN Properties(INVALID_MIDR_EL1, 0, {0})
                                ELSE Properties(INVALID_MIDR_EL1, 1, Cpus)] }

\* the files: none; one section per core; the format before Linux 3.8; a
\* file that names the hardware only
CpuInfoFiles ==
    { [opens |-> FALSE, lines |-> <<>>],
      [opens |-> TRUE,
       lines |-> <<Line(HARDWARE, TRUE, "Foo"),
                   Line(PROCESSOR, TRUE, "0"), Line(CPU_IMPLEMENTER, TRUE, "0x41"),
                   Line(CPU_PART, TRUE, "0xd05"), BlankLine,
                   Line(PROCESSOR, TRUE, "1"), Line(CPU_IMPLEMENTER, TRUE, "0x41"),
                   Line(CPU_PART, TRUE, "0xd05")>>],
      [opens |-> TRUE,
       lines |-> <<Line(PROCESSOR, TRUE, "0"), Line(PROCESSOR, TRUE, "1"),
                   Line(CPU_IMPLEMENTER, TRUE, "0x41"), Line(CPU_PART, TRUE, "0xd03")>>],
      [opens |-> TRUE, lines |-> <<Line(HARDWARE, TRUE, "Foo")>>] }

\* PerCoreIdentificationThread::detectFor(cpu)
detectFor(cpu) == properties[cpu]

\* m[k] = v
MapPut(m, k, v) == [x \in DOMAIN m \cup {k} |-> IF x = k THEN v ELSE m[x]]

\* m.emplace(k, v): an existing entry is kept
MapEmplace(m, k, v) == IF k \in DOMAIN m THEN m ELSE MapPut(m, k, v)

NoMaps == [cpuToCluster |-> <<>>, clusterToCpuIds |-> <<>>, cpuToCpuIds |-> <<>>]

\* mutant of processEntry: the cpu is mapped to its MIDR value only when the
\* package id was read
processEntryMidrInPackage(maps, c, props) ==
    IF props.physical_package_id # INVALID_PACKAGE_ID /\ props.midr_el1 # INVALID_MIDR_EL1
    THEN [maps EXCEPT !.cpuToCpuIds = MapPut(@, c, makeCpuId(props.midr_el1))]
    ELSE maps

\* mutant of processEntry: a sibling is mapped to the package whether or not
\* it has a mapping already
processEntrySiblingsOverwrite(maps, c, props) ==
    LET package == props.physical_package_id
    IN  IF package # INVALID_PACKAGE_ID
        THEN [maps EXCEPT !.cpuToCluster =
                 [x \in DOMAIN @ \cup props.core_siblings \cup {c} |->
                     IF x \in props.core_siblings \cup {c} THEN package ELSE @[x]]]
        ELSE maps

\* the body of the loop over collected_properties
processEntry(maps, c, props) ==
    LET cpuId == makeCpuId(props.midr_el1)
        package == props.physical_package_id
        hasPackage == package # INVALID_PACKAGE_ID
        hasMidr == props.midr_el1 # INVALID_MIDR_EL1
        own == IF hasPackage THEN MapPut(maps.cpuToCluster, c, package)
               ELSE maps.cpuToCluster
        withSiblings ==
            IF hasPackage
            THEN [x \in DOMAIN own \cup props.core_siblings |->
                    IF x \in DOMAIN own THEN own[x] ELSE package]
            ELSE own
        ids == IF hasPackage /\ hasMidr
               THEN MapPut(maps.clusterToCpuIds, package,
                           (IF package \in DOMAIN maps.clusterToCpuIds
                            THEN maps.clusterToCpuIds[package] ELSE {}) \cup {cpuId})
               ELSE maps.clusterToCpuIds
    IN  [cpuToCluster |-> withSiblings,
         clusterToCpuIds |-> ids,
         cpuToCpuIds |-> IF hasMidr THEN MapPut(maps.cpuToCpuIds, c, cpuId)
                         ELSE maps.cpuToCpuIds]

\* for (auto const & entry : collected_properties), in the order of the keys
RECURSIVE processEntries(_, _, _)
processEntries(maps, collected, todo) ==
    IF todo = {} THEN maps
    ELSE LET c == CHOOSE x \in todo : \A y \in todo : x <= y
         IN  CHOOSE r \in {processEntries(m, collected, todo \ {c}) :
                              m \in {processEntry(maps, c, collected[c])}} : TRUE

\* updateCpuIdsFromTopologyInformation: a cpu whose MIDR was read gets its id;
\* a cpu with a cluster and no MIDR gets the id of its cluster when exactly
\* one id was seen there; every other entry is left as it is
updateCpuIdsFromTopologyInformation(ids, toCpuIds, toCluster, clusterIds) ==
    [c \in DOMAIN ids |->
        IF c \in DOMAIN toCpuIds THEN toCpuIds[c]
        ELSE IF /\ c \in DOMAIN toCluster
                /\ toCluster[c] \in DOMAIN clusterIds
                /\ Cardinality(clusterIds[toCluster[c]]) = 1
        THEN CHOOSE id \in clusterIds[toCluster[c]] : TRUE
        ELSE ids[c]]

\* mutant of waitPredicate: the wait is over at once
waitPredicateTrue(counter, size) == TRUE

\* the predicate of cv.wait_for
waitPredicate(counter, size) == counter >= size

\* mutant of waitExpires: the wait has no timeout
waitNeverExpires(counter, size) == FALSE

\* cv.wait_for gives up after std::chrono::seconds(10) and returns false when
\* the predicate is still false
waitExpires(counter, size) == ~(counter >= size)

\* mutant of callbackEnter: the callback does not wait for the mutex
callbackEnterAnyway(holders) == TRUE

\* std::lock_guard<std::mutex> guard {mutex} in the callback: the thread gets
\* past it when nobody holds the mutex
callbackEnter(holders) == holders = {}

\* ------------------------------------------------------------------------
\* Specification SpecReadCpuInfo: one call of readCpuInfo, its identification
\* threads running beside it
\* ------------------------------------------------------------------------

InitReadCpuInfo ==
    /\ PegIdle
    /\ ParseIdle
    /\ AuxIdle
    /\ ignoreOffline \in BOOLEAN
    /\ wantsHardwareName \in BOOLEAN
    /\ cpuIds \in InitialCpuIds
    /\ properties \in Targets
    /\ cpuinfo \in CpuInfoFiles
    /\ orch = "start"
    /\ thread = [c \in Cpus |-> "none"]
    /\ mutex = {}
    /\ identificationThreadCallbackCounter = 0
    /\ collected_properties = <<>>
    /\ timedOut = FALSE
    /\ shutdown = FALSE
    /\ cpuToCluster = <<>>
    /\ clusterToCpuIds = <<>>
    /\ cpuToCpuIds = <<>>
    /\ hardwareName = ""
    /\ snapshot = <<>>
    /\ unguarded = FALSE
    /\ parsedCpuIds = <<>>

inputVars == <<ignoreOffline, wantsHardwareName, properties, cpuinfo>>
mapVars == <<cpuToCluster, clusterToCpuIds, cpuToCpuIds>>
otherVars == <<pegVars, parseVars, inputVars, auxVars>>

\* if (!ignoreOffline): one PerCoreIdentificationThread per cpu
SpawnThreads ==
    /\ orch = "start"
    /\ ~ignoreOffline
    /\ thread' = [c \in Cpus |-> "running"]
    /\ orch' = "spawned"
    /\ UNCHANGED <<otherVars, mapVars, cpuIds, mutex, identificationThreadCallbackCounter,
                   collected_properties, timedOut, shutdown, hardwareName, snapshot,
                   unguarded, parsedCpuIds>>

\* else: the properties of every cpu are read one by one
DetectAll ==
    /\ orch = "start"
    /\ ignoreOffline
    /\ collected_properties' = [c \in Cpus |-> detectFor(c)]
    /\ unguarded' = (unguarded \/ mutex # {Orchestrator})
    /\ orch' = "collected"
    /\ UNCHANGED <<otherVars, mapVars, cpuIds, thread, mutex,
                   identificationThreadCallbackCounter, timedOut, shutdown, hardwareName,
                   snapshot, parsedCpuIds>>

\* std::unique_lock lock {mutex}; cv.wait_for(...): the predicate is tested
\* with the mutex held, and the mutex is let go when it is false
WaitBegin ==
    /\ orch = "spawned"
    /\ mutex = {}
    /\ IF waitPredicate(identificationThreadCallbackCounter, Size(cpuIds))
       THEN orch' = "waited" /\ mutex' = {Orchestrator}
       ELSE orch' = "sleeping" /\ mutex' = {}
    /\ UNCHANGED <<otherVars, mapVars, cpuIds, thread, identificationThreadCallbackCounter,
                   collected_properties, timedOut, shutdown, hardwareName, snapshot,
                   unguarded, parsedCpuIds>>

\* cv.wait_for returns true: the mutex is taken again, the predicate holds
WaitNotified ==
    /\ orch = "sleeping"
    /\ mutex = {}
    /\ waitPredicate(identificationThreadCallbackCounter, Size(cpuIds))
    /\ mutex' = {Orchestrator}
    /\ orch' = "waited"
    /\ UNCHANGED <<otherVars, mapVars, cpuIds, thread, identificationThreadCallbackCounter,
                   collected_properties, timedOut, shutdown, hardwareName, snapshot,
                   unguarded, parsedCpuIds>>

\* cv.wait_for returns false: the mutex is taken again, the time is up
WaitTimeout ==
    /\ orch = "sleeping"
    /\ mutex = {}
    /\ waitExpires(identificationThreadCallbackCounter, Size(cpuIds))
    /\ mutex' = {Orchestrator}
    /\ timedOut' = TRUE
    /\ orch' = "waited"
    /\ UNCHANGED <<otherVars, mapVars, cpuIds, thread, identificationThreadCallbackCounter,
                   collected_properties, shutdown, hardwareName, snapshot, unguarded,
                   parsedCpuIds>>

\* if (!succeeded) LOG_DEBUG(... identificationThreadCallbackCounter ...), then
\* the unique_lock goes out of scope
WaitEnd ==
    /\ orch = "waited"
    /\ unguarded' = (unguarded \/ (timedOut /\ mutex # {Orchestrator}))
    /\ mutex' = mutex \ {Orchestrator}
    /\ orch' = "collected"
    /\ UNCHANGED <<otherVars, mapVars, cpuIds, thread, identificationThreadCallbackCounter,
                   collected_properties, timedOut, shutdown, hardwareName, snapshot,
                   parsedCpuIds>>

\* std::lock_guard<std::mutex> lock(mutex)
ProcessLock ==
    /\ orch = "collected"
    /\ mutex = {}
    /\ mutex' = {Orchestrator}
    /\ snapshot' = collected_properties
    /\ orch' = "processing"
    /\ UNCHANGED <<otherVars, mapVars, cpuIds, thread, identificationThreadCallbackCounter,
                   collected_properties, timedOut, shutdown, hardwareName, unguarded,
                   parsedCpuIds>>

\* process the collected properties
ProcessCollected ==
    /\ orch = "processing"
    /\ LET maps == processEntries(NoMaps, collected_properties, DOMAIN collected_properties)
       IN  /\ cpuToCluster' = maps.cpuToCluster
           /\ clusterToCpuIds' = maps.clusterToCpuIds
           /\ cpuToCpuIds' = maps.cpuToCpuIds
    /\ unguarded' = (unguarded \/ mutex # {Orchestrator})
    /\ orch' = "processed"
    /\ UNCHANGED <<otherVars, cpuIds, thread, mutex, identificationThreadCallbackCounter,
                   collected_properties, timedOut, shutdown, hardwareName, snapshot,
                   parsedCpuIds>>

\* mutant of lockGuardDestroyed: the lock_guard outlives perCoreThreads
lockGuardOutlivesThreads(holders) == holders

\* the lock_guard of line 273 is the last object declared in the block, so
\* the first destroyed at line 306: the mutex is let go
lockGuardDestroyed(holders) == holders \ {Orchestrator}

\* the end of the block: the lock_guard lets the mutex go, then perCoreThreads
\* is destroyed, which tells every thread to stop
ScopeExit ==
    /\ orch = "processed"
    /\ mutex' = lockGuardDestroyed(mutex)
    /\ shutdown' = TRUE
    /\ orch' = "joining"
    /\ UNCHANGED <<otherVars, mapVars, cpuIds, thread, identificationThreadCallbackCounter,
                   collected_properties, timedOut, hardwareName, snapshot, unguarded,
                   parsedCpuIds>>

\* ... and joins it; the block is left when every thread has ended
Join ==
    /\ orch = "joining"
    /\ \A c \in Cpus : thread[c] \in {"none", "exited"}
    /\ orch' = "parse"
    /\ UNCHANGED <<otherVars, mapVars, cpuIds, thread, mutex,
                   identificationThreadCallbackCounter, collected_properties, timedOut,
                   shutdown, hardwareName, snapshot, unguarded, parsedCpuIds>>

\* knowAllMidrValues, and parseProcCpuInfo when it is needed
Parse ==
    /\ orch = "parse"
    /\ LET knowAllMidrValues == Cardinality(DOMAIN cpuToCpuIds) = Size(cpuIds)
           p == parseProcCpuInfo(knowAllMidrValues, cpuIds, cpuinfo)
       IN  IF wantsHardwareName \/ ~knowAllMidrValues
           THEN /\ cpuIds' = p.cpuIds
                /\ parsedCpuIds' = p.cpuIds
                /\ hardwareName' = p.hardwareName
                /\ orch' = IF p.status = "fatal" THEN "fatal" ELSE "update"
           ELSE /\ hardwareName' = ""
                /\ orch' = "update"
                /\ UNCHANGED <<cpuIds, parsedCpuIds>>
    /\ UNCHANGED <<otherVars, mapVars, thread, mutex, identificationThreadCallbackCounter,
                   collected_properties, timedOut, shutdown, snapshot, unguarded>>

\* updateCpuIdsFromTopologyInformation(...); return hardwareName
Update ==
    /\ orch = "update"
    /\ cpuIds' = updateCpuIdsFromTopologyInformation(cpuIds, cpuToCpuIds, cpuToCluster,
                                                     clusterToCpuIds)
    /\ orch' = "done"
    /\ UNCHANGED <<otherVars, mapVars, thread, mutex, identificationThreadCallbackCounter,
                   collected_properties, timedOut, shutdown, hardwareName, snapshot,
                   unguarded, parsedCpuIds>>

\* the thread of cpu c has read its properties and enters the callback
CallbackLock(c) ==
    /\ thread[c] = "running"
    /\ callbackEnter(mutex)
    /\ mutex' = mutex \cup {c}
    /\ thread' = [thread EXCEPT ![c] = "locked"]
    /\ UNCHANGED <<otherVars, mapVars, cpuIds, orch, identificationThreadCallbackCounter,
                   collected_properties, timedOut, shutdown, hardwareName, snapshot,
                   unguarded, parsedCpuIds>>

\* the body of the callback, and the end of its lock_guard; the thread then
\* stays until it is told to stop
CallbackStore(c) ==
    /\ thread[c] = "locked"
    /\ collected_properties' = MapEmplace(collected_properties, c, detectFor(c))
    /\ identificationThreadCallbackCounter' = identificationThreadCallbackCounter + 1
    /\ unguarded' = (unguarded \/ mutex # {c})
    /\ mutex' = mutex \ {c}
    /\ thread' = [thread EXCEPT ![c] = "blocked"]
    /\ UNCHANGED <<otherVars, mapVars, cpuIds, orch, timedOut, shutdown, hardwareName,
                   snapshot, parsedCpuIds>>

\* the thread of cpu c is told to stop and ends
ThreadExit(c) ==
    /\ thread[c] = "blocked"
    /\ shutdown
    /\ thread' = [thread EXCEPT ![c] = "exited"]
    /\ UNCHANGED <<otherVars, mapVars, cpuIds, orch, mutex,
                   identificationThreadCallbackCounter, collected_properties, timedOut,
                   shutdown, hardwareName, snapshot, unguarded, parsedCpuIds>>

OrchestratorNext ==
    \/ SpawnThreads
    \/ DetectAll
    \/ WaitBegin
    \/ WaitNotified
    \/ WaitTimeout
    \/ WaitEnd
    \/ ProcessLock
    \/ ProcessCollected
    \/ ScopeExit
    \/ Join
    \/ Parse
    \/ Update

ThreadNext(c) == CallbackLock(c) \/ CallbackStore(c) \/ ThreadExit(c)

NextReadCpuInfo == OrchestratorNext \/ \E c \in Cpus : ThreadNext(c)

SpecReadCpuInfo == InitReadCpuInfo /\ [][NextReadCpuInfo]_vars

\* The thread that runs readCpuInfo keeps running, and so does a thread that
\* is inside the callback or has been told to stop. A thread that has not yet
\* reached the callback may take any time until then.
FairSpecReadCpuInfo ==
    /\ SpecReadCpuInfo
    /\ WF_vars(OrchestratorNext)
    /\ \A c \in Cpus : WF_vars(CallbackStore(c))
    /\ \A c \in Cpus : WF_vars(shutdown /\ ThreadNext(c))

\* ------------------------------------------------------------------------
\* Properties of readCpuInfo
\* ------------------------------------------------------------------------

\* the positions of readCpuInfo after cv.wait_for has returned
AfterWait ==
    {"waited", "collected", "processing", "processed", "joining", "parse", "update",
     "done", "fatal"}

\* the positions after the loop over collected_properties
AfterProcessing == {"processed", "joining", "parse", "update", "done", "fatal"}

\* C4 as stated: when the threads were spawned, every identification thread is
\* alive while /proc/cpuinfo is parsed and while the topology information is
\* applied.
C4_ThreadsOutliveParse ==
    (~ignoreOffline /\ orch \in {"parse", "update"})
        => \A c \in Cpus : thread[c] \in {"running", "locked", "blocked"}

\* C5: when the threads were spawned, readCpuInfo is past the wait, and so at
\* the parse of /proc/cpuinfo, only if every thread had called back when the
\* wait returned or the wait timed out.
C5_ParseAfterAllOrTimeout ==
    (~ignoreOffline /\ orch \in AfterWait)
        => (identificationThreadCallbackCounter >= NumCpus \/ timedOut)

\* the wait timed out and /proc/cpuinfo has been parsed
C5_Witness ==
    /\ ~ignoreOffline
    /\ orch = "update"
    /\ timedOut
    /\ parsedCpuIds # <<>>

\* C6: a wait that cannot succeed yet always ends, and readCpuInfo then goes
\* on to return its result; after a timeout it has processed the properties
\* that were collected when it took the lock, no others.
C6_WaitEnds ==
    /\ (orch = "sleeping") ~> (orch = "done")
    /\ [](timedOut /\ orch \in AfterProcessing
            => /\ DOMAIN cpuToCpuIds \subseteq DOMAIN snapshot
               /\ cpuToCpuIds = processEntries(NoMaps, snapshot, DOMAIN snapshot).cpuToCpuIds)

\* readCpuInfo has returned after a timeout, with fewer callbacks than cpus
\* when it processed
C6_Witness ==
    /\ orch = "done"
    /\ timedOut
    /\ Cardinality(DOMAIN snapshot) < NumCpus

\* C7: with identification threads, the map and the counter are accessed only
\* by the holder of the mutex, the mutex has one holder at most, and what the
\* orchestrator processes is what the map held when it took the lock.
C7_MutexGuardsCollected ==
    ~ignoreOffline
        => /\ ~unguarded
           /\ Cardinality(mutex) <= 1
           /\ orch = "processing" => collected_properties = snapshot
           /\ orch \in AfterProcessing
                => /\ cpuToCluster = processEntries(NoMaps, snapshot, DOMAIN snapshot).cpuToCluster
                   /\ clusterToCpuIds = processEntries(NoMaps, snapshot, DOMAIN snapshot).clusterToCpuIds
                   /\ cpuToCpuIds = processEntries(NoMaps, snapshot, DOMAIN snapshot).cpuToCpuIds

\* a callback came after the timeout and after the processing
C7_Witness ==
    /\ ~ignoreOffline
    /\ timedOut
    /\ orch = "parse"
    /\ DOMAIN collected_properties # DOMAIN snapshot

\* C8: when readCpuInfo has returned, every cpu whose properties it processed
\* with a MIDR m has cpuIds[c] = makeCpuId(m).
C8_MidrTakesPrecedence ==
    orch = "done"
        => \A c \in DOMAIN snapshot :
              snapshot[c].midr_el1 # INVALID_MIDR_EL1
                => cpuIds[c] = makeCpuId(snapshot[c].midr_el1)

\* /proc/cpuinfo gave a cpu another id than its MIDR does
C8_Witness ==
    /\ orch = "done"
    /\ parsedCpuIds # <<>>
    /\ \E c \in DOMAIN snapshot :
          /\ snapshot[c].midr_el1 # INVALID_MIDR_EL1
          /\ parsedCpuIds[c] \notin {-1, makeCpuId(snapshot[c].midr_el1)}
          /\ cpuIds[c] = makeCpuId(snapshot[c].midr_el1)

\* ------------------------------------------------------------------------
\* Properties of parseProcCpuInfo, on the whole file
\* ------------------------------------------------------------------------

\* the values of the lines that start with key and convert
ValuesOf(lines, key) ==
    {stringToInt(lines[i].text).value :
        i \in {j \in LinesWith(lines, key) : lines[j].sep /\ stringToInt(lines[j].text).ok}}

\* a file in the format before Linux 3.8: CPU implementer and CPU part appear
\* once each, with a value that converts, and neither was read under a processor
PreLinux38(f) ==
    /\ Cardinality(LinesWith(f.lines, CPU_IMPLEMENTER)) = 1
    /\ Cardinality(LinesWith(f.lines, CPU_PART)) = 1
    /\ Cardinality(ValuesOf(f.lines, CPU_IMPLEMENTER)) = 1
    /\ Cardinality(ValuesOf(f.lines, CPU_PART)) = 1
    /\ f.bound = {}

\* (implementer << 12) | part of such a file
GlobalPair(f) ==
    BitOr((CHOOSE x \in ValuesOf(f.lines, CPU_IMPLEMENTER) : TRUE) * 4096,
          CHOOSE y \in ValuesOf(f.lines, CPU_PART) : TRUE)

\* i lies within the span [lo..hi] of the processor lines of the file
InProcessorSpan(f, i) ==
    /\ \E lo \in ValuesOf(f.lines, PROCESSOR) : lo <= i
    /\ \E hi \in ValuesOf(f.lines, PROCESSOR) : i <= hi

\* C11: when a file in the format before Linux 3.8 has been parsed to its end,
\* every entry within the span of its processor lines that was -1 holds the
\* global (implementer << 12) | part, and every other entry is as it was; the
\* span may end at the last entry.
C11_PreLinux38Fill ==
    (parser.status = "eof" /\ PreLinux38(fileHistory))
        => \A i \in Cpus :
              parser.cpuIds[i] = IF InProcessorSpan(fileHistory, i) /\ fileHistory.initial[i] = -1
                                 THEN GlobalPair(fileHistory)
                                 ELSE fileHistory.initial[i]

\* such a file whose processor lines end at the last entry, which was filled
C11_Witness ==
    /\ parser.status = "eof"
    /\ PreLinux38(fileHistory)
    /\ NumCpus - 1 \in ValuesOf(fileHistory.lines, PROCESSOR)
    /\ fileHistory.initial[NumCpus - 1] = -1
    /\ parser.cpuIds[NumCpus - 1] = GlobalPair(fileHistory)

\* C12: once a processor line whose index is larger than the length of cpuIds
\* has been read, the parse has ended in handleException, wherever in its
\* section the line stood.
C12_OutOfRangeProcessorIsFatal ==
    parser.status # "fatal"
        => \A v \in ValuesOf(fileHistory.lines, PROCESSOR) : v <= Size(parser.cpuIds)

\* the lines read that start with CPU implementer, CPU part or processor and
\* have no ": " with a text after it
MalformedLines(lines) ==
    {i \in DOMAIN lines : lines[i].key \in {CPU_IMPLEMENTER, CPU_PART, PROCESSOR} /\ ~lines[i].sep}

\* C13: once a recognised line with a malformed colon layout has been read,
\* the parse has stopped and the hardware name it returns is empty, whatever
\* lines came before.
C13_MalformedReturnsEmptyName ==
    MalformedLines(fileHistory.lines) # {}
        => parser.status = "returned" /\ parser.hardwareName = ""

\* ------------------------------------------------------------------------
\* Specification SpecWatermark: calculate_aux_watermark as a function of its
\* arguments
\* ------------------------------------------------------------------------

\* sizes of the aux mmap, in bytes: none, less than a page, around two pages
\* (where half of it meets MIN_SPE_WATERMARK), the configured one, around
\* twice MAX_SPE_WATERMARK, the largest the model checker's integers hold
MmapSizes ==
    {0, 1, MIN_SPE_WATERMARK - 1, MIN_SPE_WATERMARK, 2 * MIN_SPE_WATERMARK - 1,
     2 * MIN_SPE_WATERMARK, 2 * MIN_SPE_WATERMARK + 2, AuxBufferSize, DataBufferSize,
     2 * MAX_SPE_WATERMARK - 2, 2 * MAX_SPE_WATERMARK, 2 * MAX_SPE_WATERMARK + 2, INT_MAX}

\* sample periods from 1 up: bps / fraction_of_second passes MAX_SPE_WATERMARK
\* between the periods 1144 and 1145 and MIN_SPE_WATERMARK between 585823 and
\* 585824
SamplePeriods ==
    {1, 2, 1000, 1144, 1145, 100000, 585823, 585824, NANO_SECONDS_IN_100_MS,
     NANO_SECONDS_IN_ONE_SECOND, NANO_SECONDS_IN_ONE_SECOND + 1, INT_MAX}

InitWatermark ==
    /\ PegIdle
    /\ CpuIdle
    /\ ParseIdle
    /\ \E m \in MmapSizes, c \in SamplePeriods :
          watermarkCall = [mmap_size |-> m, count |-> c, returned |-> FALSE, result |-> 0]
    /\ maxCore = <<>>
    /\ AttrsIdle
    /\ AgentsIdle

CalculateAuxWatermark ==
    /\ ~watermarkCall.returned
    /\ watermarkCall' =
          [watermarkCall EXCEPT
              !.returned = TRUE,
              !.result = calculate_aux_watermark(watermarkCall.mmap_size, watermarkCall.count, 0)]
    /\ UNCHANGED <<maxCore, attrsVars, agentVars, pegVars, cpuVars, parseVars>>

NextWatermark == CalculateAuxWatermark

SpecWatermark == InitWatermark /\ [][NextWatermark]_vars

\* C14: calculate_aux_watermark returns a value in [4096, 2 * 1024 * 1024] for
\* every size of the mmap and every period from 1 up.
C14_WatermarkInRange ==
    watermarkCall.returned
        => /\ watermarkCall.result >= 4096
           /\ watermarkCall.result <= 2 * 1024 * 1024

\* a call whose preferred watermark lay above the range
C14_Witness ==
    /\ watermarkCall.returned
    /\ watermarkCall.mmap_size \div 2 > MAX_SPE_WATERMARK
    /\ watermarkCall.count < 1144
    /\ watermarkCall.result = MAX_SPE_WATERMARK

\* C15 as stated: calculate_aux_watermark returns at most mmap_size / 2, for
\* every size of the mmap and every period from 1 up.
C15_AtMostHalf ==
    watermarkCall.returned => watermarkCall.result <= watermarkCall.mmap_size \div 2

\* C15: calculate_aux_watermark returns at most mmap_size / 2 whenever
\* mmap_size / 2 is at least 4096, and 4096 otherwise.
C15_AtMostHalfAboveMin ==
    watermarkCall.returned
        => IF watermarkCall.mmap_size \div 2 >= 4096
           THEN watermarkCall.result <= watermarkCall.mmap_size \div 2
           ELSE watermarkCall.result = 4096

\* a call that returned half of the size of the mmap
C15_Witness ==
    /\ watermarkCall.returned
    /\ watermarkCall.mmap_size \div 2 > 4096
    /\ watermarkCall.result = watermarkCall.mmap_size \div 2

\* ------------------------------------------------------------------------
\* Properties of addEvent and createGroupLeader, on the whole group
\* ------------------------------------------------------------------------

\* the elements of events whose addEvent returned true
Succeeded == {i \in DOMAIN added : added[i].ret}

\* the call on the mapping tracker made for element i of events, i in Succeeded
Tracked(i) == tracker[Cardinality({j \in Succeeded : j <= i})]

\* C16: in an SPE group every event appended by an addEvent that returned
\* true has context_switch 1, whatever the caller's Attr carried, and the
\* attribute handed to the mapping tracker for it is the event's, with the
\* same forced value.
C16_SpeForcesContextSwitch ==
    groupType = SPE
        => /\ Len(tracker) = Cardinality(Succeeded)
           /\ \A i \in Succeeded :
                 /\ events[i].attr.context_switch = 1
                 /\ Tracked(i).key = events[i].key
                 /\ Tracked(i).attr = events[i].attr
                 /\ Tracked(i).attr.context_switch = 1

\* an SPE group with an event whose caller did not ask for context switches
C16_Witness ==
    /\ groupType = SPE
    /\ \E i \in Succeeded :
          /\ ~added[i].attr.context_switch
          /\ events[i].attr.context_switch = 1
          /\ Tracked(i).attr.context_switch = 1

\* C17: an addEvent with leader set on a group that has an event returns
\* false and leaves the events of the group and the mapping tracker as they
\* were.
C17_LeaderIntoNonEmptyRefused ==
    [][(call'.op = "addEvent" /\ call'.leader /\ events # <<>>)
          => (~call'.ret /\ events' = events /\ tracker' = tracker)]_vars

\* after such a call: it returned false, and every event of the group is one
\* whose addEvent returned true
C17_Witness ==
    /\ call.op = "addEvent"
    /\ call.leader
    /\ ~call.ret
    /\ events # <<>>
    /\ Succeeded = DOMAIN events

\* C18: the events of a group stand in the order of the addEvent calls that
\* appended them: a call leaves the events already there in their places and
\* puts its own event, with the key it was given, behind them; and an event
\* added with leader set is the first of the group from then on.
C18_CallOrderIsGroupOrder ==
    [][/\ Len(events') >= Len(events)
       /\ SubSeq(events', 1, Len(events)) = events
       /\ (call'.op = "addEvent" /\ Len(events') > Len(events))
             => /\ Len(events') = Len(events) + 1
                /\ events'[Len(events')].key = call'.key
       /\ \A i \in DOMAIN events' : added'[i].leader => i = 1]_vars

\* a group of three events with three keys, the first added as the leader
C18_Witness ==
    /\ Len(events) = 3
    /\ call.op = "addEvent"
    /\ added[1].leader
    /\ Cardinality({events[i].key : i \in DOMAIN events}) = 3
    /\ \A i \in DOMAIN events : events[i].key = added[i].key

\* ------------------------------------------------------------------------
\* Specification SpecShared: configurers built one after the other over one
\* config, each asked for its group leader
\* ------------------------------------------------------------------------

\* the most configurers built over the config
MaxGroups == 3

\* the configurations SpecShared starts from: those of Spec, the same with the
\* id of the sched_switch tracepoint not read, and with the id 0
SharedConfigs ==
    ConfigSet \cup {[c EXCEPT !.schedSwitchId = id] :
                        c \in ConfigSet, id \in {UNKNOWN_TRACEPOINT_ID, 0}}

InitShared ==
    /\ config \in SharedConfigs
    /\ dummyKeyCounter = config.dummyKeyCounter
    /\ groupType \in GroupTypes
    /\ events = <<>>
    /\ tracker = <<>>
    /\ added = <<>>
    /\ drawn = <<>>
    /\ groups = <<>>
    /\ call = NoCall
    /\ CpuIdle
    /\ ParseIdle
    /\ AuxIdle

\* a caller asks the configurer for its group leader
LeaderOfConfigurer ==
    /\ config.dummyKeyCounter - dummyKeyCounter < MaxEvents
    /\ \E divz \in DivisionOutcomes(EmptyAttr, FALSE) :
          Commit(createGroupLeader(St, config, groupType, divz), "createGroupLeader", TRUE, 0)

\* the caller builds the next configurer over the same config; the mapping
\* tracker is the caller's and goes on
NextConfigurer ==
    /\ Len(groups) + 1 < MaxGroups
    /\ groups' = Append(groups, [type |-> groupType, events |-> events])
    /\ groupType' \in GroupTypes
    /\ events' = <<>>
    /\ added' = <<>>
    /\ call' = NoCall
    /\ UNCHANGED <<config, dummyKeyCounter, tracker, drawn, cpuVars, parseVars, auxVars>>

NextShared == LeaderOfConfigurer \/ NextConfigurer

SpecShared == InitShared /\ [][NextShared]_vars

\* every configurer built over the config, the present one last
Configurers == Append(groups, [type |-> groupType, events |-> events])

\* the keys of the events createGroupLeader gave a key from nextDummyKey: all
\* but the leader of a CPU group, and the leader of an uncore group
SyntheticKeysOf(g) ==
    LET keys == [i \in DOMAIN g.events |-> g.events[i].key]
    IN  IF g.type = PER_CLUSTER_CPU /\ keys # <<>> THEN Tail(keys) ELSE keys

\* those keys over the configurers gs, in the order the events were added
RECURSIVE SyntheticKeys(_)
SyntheticKeys(gs) ==
    IF gs = <<>> THEN <<>> ELSE SyntheticKeysOf(Head(gs)) \o SyntheticKeys(Tail(gs))

\* C19: each draw from the dummy-key counter returns one less than the draw
\* before it, starting at the negative value the config came with; so over any
\* sequence of createGroupLeader calls on configurers that share the config the
\* keys drawn are negative, strictly decreasing and distinct, the synthetic
\* events of all the configurers carry distinct keys among them, none of them
\* the caller's non-negative key, and the caller's key is on the leader of a
\* CPU group as it was given.
C19_DummyKeysDecrease ==
    LET synthetic == SyntheticKeys(Configurers)
    IN  /\ dummyKeyCounter = config.dummyKeyCounter - Len(drawn)
        /\ \A k \in DOMAIN drawn :
              /\ drawn[k] = config.dummyKeyCounter - (k - 1)
              /\ drawn[k] < 0
              /\ \A j \in 1..(k - 1) : drawn[k] < drawn[j]
        /\ \A m \in DOMAIN synthetic :
              /\ \E k \in DOMAIN drawn : synthetic[m] = drawn[k]
              /\ \A n \in DOMAIN synthetic : n # m => synthetic[n] # synthetic[m]
              /\ config.schedSwitchKey >= 0 => synthetic[m] # config.schedSwitchKey
        /\ \A g \in DOMAIN Configurers :
              (Configurers[g].type = PER_CLUSTER_CPU /\ Configurers[g].events # <<>>)
                  => Configurers[g].events[1].key = config.schedSwitchKey

\* two configurers over one config, each with a synthetic event, after three draws
C19_Witness ==
    /\ Len(groups) >= 1
    /\ Len(drawn) >= 3
    /\ SyntheticKeysOf(groups[1]) # <<>>
    /\ SyntheticKeysOf([type |-> groupType, events |-> events]) # <<>>

\* the tier of the leader for the capabilities of the config: the first of
\* the five whose condition holds
LeaderTier ==
    LET pc == config.perfConfig
    IN  IF pc.is_system_wide /\ pc.can_access_tracepoints THEN 1
        ELSE IF pc.has_attr_context_switch /\ pc.has_count_sw_dummy THEN 2
        ELSE IF pc.has_attr_context_switch THEN 3
        ELSE IF ~pc.exclude_kernel THEN 4
        ELSE 5

\* the event e is the leader of tier t
IsLeaderOfTier(e, t) ==
    LET a == e.attr
        periodic == config.sampleRate > 0 /\ config.enablePeriodicSampling
    IN  /\ t = 1 => /\ a.type = PERF_TYPE_TRACEPOINT
                    /\ a.config = config.schedSwitchId
                    /\ a.sample_period = 1
                    /\ PERF_SAMPLE_RAW \in a.sample_type
        /\ t = 2 => /\ a.type = PERF_TYPE_SOFTWARE
                    /\ a.config = PERF_COUNT_SW_DUMMY
                    /\ a.sample_period = 0
                    /\ a.context_switch = 1
        /\ t = 3 => /\ a.type = PERF_TYPE_SOFTWARE
                    /\ a.config = PERF_COUNT_SW_CPU_CLOCK
                    /\ a.context_switch = 1
                    /\ a.sample_period = IF periodic THEN 1000000000 \div config.sampleRate ELSE 0
        /\ t = 4 => /\ a.type = PERF_TYPE_SOFTWARE
                    /\ a.config = PERF_COUNT_SW_CONTEXT_SWITCHES
                    /\ a.sample_period = 1
        /\ t = 5 => /\ a.type = PERF_TYPE_SOFTWARE
                    /\ a.config = PERF_COUNT_SW_CPU_CLOCK

\* C20: the leader createCpuGroupLeader gives a CPU group is the one of the
\* first tier whose condition the capabilities meet; it is the first event of
\* the group and carries the key schedSwitchKey.  The call gives the group no
\* leader of a later tier when the first tier matches and the id of the
\* sched_switch tracepoint is not known: it returns false, the group empty.
C20_LeaderByFirstTier ==
    /\ \A g \in DOMAIN Configurers :
          (Configurers[g].type = PER_CLUSTER_CPU /\ Configurers[g].events # <<>>)
              => /\ IsLeaderOfTier(Configurers[g].events[1], LeaderTier)
                 /\ Configurers[g].events[1].key = config.schedSwitchKey
    /\ (groupType = PER_CLUSTER_CPU /\ call.op = "createGroupLeader")
          => IF LeaderTier = 1 /\ config.schedSwitchId = UNKNOWN_TRACEPOINT_ID
             THEN ~call.ret /\ events = <<>>
             ELSE events # <<>> /\ added[1].leader

\* a CPU group whose leader is of the third tier, sampling periodically
C20_Witness ==
    /\ groupType = PER_CLUSTER_CPU
    /\ call.op = "createGroupLeader"
    /\ call.ret
    /\ LeaderTier = 3
    /\ config.sampleRate > 0
    /\ IsLeaderOfTier(events[1], 3)
    /\ events[1].key = config.schedSwitchKey

\* ------------------------------------------------------------------------
\* Properties of createCpuGroupLeader and createUncoreGroupLeader: the
\* followers, the uncore leader, the kinds without a leader
\* ------------------------------------------------------------------------

\* createGroupLeader has just returned true on the CPU group
CpuLeaderCreated ==
    /\ groupType = PER_CLUSTER_CPU
    /\ call.op = "createGroupLeader"
    /\ call.ret

\* sampleRate > 0 && enablePeriodicSampling
PeriodicSampling == config.sampleRate > 0 /\ config.enablePeriodicSampling

\* the events behind the leader that are the periodic PC sampler: SOFTWARE,
\* CPU_CLOCK, period 1e9 / sampleRate, a key from the dummy-key counter
PcFollowers ==
    {i \in 2..Len(events) :
        /\ events[i].attr.type = PERF_TYPE_SOFTWARE
        /\ events[i].attr.config = PERF_COUNT_SW_CPU_CLOCK
        /\ config.sampleRate > 0
        /\ events[i].attr.sample_period = 1000000000 \div config.sampleRate
        /\ \E k \in DOMAIN drawn : events[i].key = drawn[k]}

\* C21: after createCpuGroupLeader has returned true the group holds a
\* SOFTWARE / CPU_CLOCK follower with period 1e9 / sampleRate and a dummy key
\* exactly when periodic sampling is enabled and the leader is of tier 1, 2
\* or 4, whatever the id of the sched_switch tracepoint.
C21_PcFollowerIffPeriodic ==
    CpuLeaderCreated
        => (PcFollowers # {} <=> (PeriodicSampling /\ LeaderTier \in {1, 2, 4}))

\* the events of es that are the task clock follower: SOFTWARE, TASK_CLOCK,
\* period 100000 ns, sampling TID
TaskClockFollowers(es) ==
    {i \in DOMAIN es :
        /\ es[i].attr.type = PERF_TYPE_SOFTWARE
        /\ es[i].attr.config = PERF_COUNT_SW_TASK_CLOCK
        /\ es[i].attr.sample_period = 100000
        /\ PERF_SAMPLE_TID \in es[i].attr.sample_type}

\* the events of es that are SOFTWARE / CPU_CLOCK
CpuClockEvents(es) ==
    {i \in DOMAIN es :
        es[i].attr.type = PERF_TYPE_SOFTWARE /\ es[i].attr.config = PERF_COUNT_SW_CPU_CLOCK}

\* C22: a CPU group that createCpuGroupLeader has filled holds a SOFTWARE /
\* TASK_CLOCK follower with period 100000 ns sampling TID exactly when its
\* leader is of tier 4, and then it is the last event of the group, behind
\* the leader and behind the CPU-clock follower when there is one.
C22_TaskClockIffTier4 ==
    \A g \in DOMAIN Configurers :
        LET es == Configurers[g].events
        IN  (Configurers[g].type = PER_CLUSTER_CPU /\ es # <<>>)
                => /\ TaskClockFollowers(es) # {} <=> LeaderTier = 4
                   /\ TaskClockFollowers(es) \subseteq {Len(es)}
                   /\ TaskClockFollowers(es) # {}
                         => /\ Len(es) > 1
                            /\ \A i \in CpuClockEvents(es) : i < Len(es)

\* a CPU group of tier 4 with periodic sampling: the leader, the CPU-clock
\* follower, the task clock follower
C22_Witness ==
    /\ CpuLeaderCreated
    /\ LeaderTier = 4
    /\ Len(events) = 3
    /\ CpuClockEvents(events) = {2}
    /\ TaskClockFollowers(events) = {3}

\* the group es is what createUncoreGroupLeader makes of an empty group, but
\* for the sample type: one event, SOFTWARE, CPU_CLOCK, with period
\* 1e9 / sampleRate when there is a sample rate and 100,000,000 ns otherwise
IsUncoreLeaderGroup(es) ==
    /\ Len(es) = 1
    /\ es[1].attr.type = PERF_TYPE_SOFTWARE
    /\ es[1].attr.config = PERF_COUNT_SW_CPU_CLOCK
    /\ es[1].attr.sample_period = IF config.sampleRate > 0
                                  THEN 1000000000 \div config.sampleRate
                                  ELSE 100000000

\* the uncore groups createGroupLeader has been called on
UncoreGroups ==
    {g \in DOMAIN Configurers :
        /\ Configurers[g].type = UNCORE_PMU
        /\ (g = Len(Configurers) => call.op = "createGroupLeader")
        /\ (g < Len(Configurers) => Configurers[g].events # <<>>)}

\* C23 as stated: createGroupLeader on an empty uncore group appends one
\* event, SOFTWARE / CPU_CLOCK with the period above, whose sample_type
\* contains READ, in system-wide and in application mode alike.
C23_UncoreLeaderSamplesRead ==
    \A g \in UncoreGroups :
        /\ IsUncoreLeaderGroup(Configurers[g].events)
        /\ PERF_SAMPLE_READ \in Configurers[g].events[1].attr.sample_type

\* C23: createGroupLeader on an empty uncore group appends one event,
\* SOFTWARE / CPU_CLOCK with the period above; its sample_type contains READ
\* in system-wide mode and, READ not being allowed with inherit, does not in
\* application mode.
C23_UncoreLeader ==
    \A g \in UncoreGroups :
        /\ IsUncoreLeaderGroup(Configurers[g].events)
        /\ PERF_SAMPLE_READ \in Configurers[g].events[1].attr.sample_type
              <=> config.perfConfig.is_system_wide

\* an uncore group in application mode, sampling at the sample rate
C23_Witness ==
    /\ groupType = UNCORE_PMU
    /\ call.op = "createGroupLeader"
    /\ call.ret
    /\ ~config.perfConfig.is_system_wide
    /\ config.sampleRate > 0
    /\ IsUncoreLeaderGroup(events)
    /\ PERF_SAMPLE_READ \in added[1].attr.sampleType
    /\ PERF_SAMPLE_READ \notin events[1].attr.sample_type

\* C24: createGroupLeader on a group whose kind is SPECIFIC_CPU, GLOBAL or
\* SPE returns false; it adds no event, makes no call on the mapping tracker
\* and draws no dummy key.
C24_NoLeaderForOtherKinds ==
    [][(call'.op = "createGroupLeader" /\ groupType \in {SPECIFIC_CPU, GLOBAL, SPE})
          => /\ ~call'.ret
             /\ events' = events
             /\ tracker' = tracker
             /\ dummyKeyCounter' = dummyKeyCounter
             /\ drawn' = drawn]_vars

\* after such a call on a group that had an event: it returned false, no key
\* has been drawn
C24_Witness ==
    /\ groupType \in {SPECIFIC_CPU, GLOBAL, SPE}
    /\ call.op = "createGroupLeader"
    /\ ~call.ret
    /\ Len(events) = 1
    /\ Len(tracker) = 1
    /\ drawn = <<>>
    /\ dummyKeyCounter = config.dummyKeyCounter

\* C25: the calls on the mapping tracker are, in order, one for each event
\* whose addEvent returned true, with the key and the attribute record the
\* group holds for it; an addEvent that returned false made none.
C25_TrackerMirrorsGroup ==
    /\ Len(tracker) = Cardinality(Succeeded)
    /\ \A i \in Succeeded : Tracked(i) = [key |-> events[i].key, attr |-> events[i].attr]

\* an SPE group of two events with two keys, both tracked with the
\* context_switch the SPE block forced
C25_Witness ==
    /\ groupType = SPE
    /\ Succeeded = {1, 2}
    /\ Len(tracker) = 2
    /\ tracker[1].key # tracker[2].key
    /\ tracker[2].attr.context_switch = 1
    /\ ~added[2].attr.context_switch

\* ------------------------------------------------------------------------
\* Properties of initEvent: pinning, kernel exclusion
\* ------------------------------------------------------------------------

\* C26: an event that is not a leader, initialised as addEvent does it (no
\* header), is pinned and disabled exactly when every attribute is in its own
\* group, which is in application mode or when the group requires no leader;
\* and disabled equals pinned for every event.
C26_FollowerPinnedByOwnGroup ==
    /\ \A i \in EventIndices : events[i].attr.disabled = events[i].attr.pinned
    /\ (call.op = "initEvent" /\ ~call.leader /\ ~call.is_header)
          => LET own == ~config.perfConfig.is_system_wide \/ ~call.requires_leader
             IN  /\ events[1].attr.pinned = (IF own THEN 1 ELSE 0)
                 /\ events[1].attr.disabled = (IF own THEN 1 ELSE 0)

\* a follower in application mode, in a group that requires a leader: pinned
C26_Witness ==
    /\ call.op = "initEvent"
    /\ ~call.leader /\ ~call.is_header /\ call.requires_leader
    /\ ~config.perfConfig.is_system_wide
    /\ events[1].attr.pinned = 1
    /\ events[1].attr.disabled = 1

\* C27: exclude_kernel, exclude_hv and exclude_idle of an event are equal,
\* and set exactly when kernel exclusion was requested and the event is not
\* SOFTWARE / CONTEXT_SWITCHES; exclude_callchain_kernel is set exactly when
\* exclusion was requested and the kernel supports it, whatever the type.
C27_KernelExclusion ==
    \A i \in EventIndices :
        LET a == events[i].attr
            switches == a.type = PERF_TYPE_SOFTWARE /\ a.config = PERF_COUNT_SW_CONTEXT_SWITCHES
        IN  /\ a.exclude_hv = a.exclude_kernel
            /\ a.exclude_idle = a.exclude_kernel
            /\ a.exclude_kernel = (IF config.excludeKernelEvents /\ ~switches THEN 1 ELSE 0)
            /\ a.exclude_callchain_kernel =
                  (IF config.excludeKernelEvents /\ config.perfConfig.has_exclude_callchain_kernel
                   THEN 1 ELSE 0)

\* with exclusion requested: a raw counter whose config is the number of
\* CONTEXT_SWITCHES has the kernel excluded
C27_Witness ==
    /\ call.op = "initEvent"
    /\ config.excludeKernelEvents
    /\ events[1].attr.type = PERF_TYPE_RAW
    /\ events[1].attr.config = PERF_COUNT_SW_CONTEXT_SWITCHES
    /\ events[1].attr.exclude_kernel = 1
    /\ events[1].attr.exclude_callchain_kernel = 0

\* ------------------------------------------------------------------------
\* Specification SpecMaxCore: getMaxCoreNum reads /sys/devices/system/cpu
\* entry by entry, in the order readdir returns them
\* ------------------------------------------------------------------------

\* a name, character by character
Cpu(rest) == <<"c", "p", "u">> \o rest

\* the entries a directory of the model may hold
SysfsEntries ==
    { Cpu(<<"0">>), Cpu(<<"1">>), Cpu(<<"2">>), Cpu(<<"1", "0">>),
      Cpu(<<"f", "r", "e", "q">>), Cpu(<<"i", "d", "l", "e">>), Cpu(<<>>),
      <<"p", "o", "s", "s", "i", "b", "l", "e">> }

DecimalDigits ==
    [c \in {"0", "1", "2", "3", "4", "5", "6", "7", "8", "9"} |->
        CASE c = "0" -> 0 [] c = "1" -> 1 [] c = "2" -> 2 [] c = "3" -> 3 [] c = "4" -> 4
          [] c = "5" -> 5 [] c = "6" -> 6 [] c = "7" -> 7 [] c = "8" -> 8 [] c = "9" -> 9]

\* the number a text of decimal digits stands for
RECURSIVE DecimalValue(_)
DecimalValue(text) ==
    IF text = <<>> THEN 0
    ELSE 10 * DecimalValue(SubSeq(text, 1, Len(text) - 1)) + DecimalDigits[text[Len(text)]]

\* stringToLong(&value, text, 10) is not among the sources: it converts a
\* text that is a decimal number as a whole and fails on any other
stringToLong(text) ==
    IF text # <<>> /\ \A i \in DOMAIN text : text[i] \in DOMAIN DecimalDigits
    THEN [ok |-> TRUE, value |-> DecimalValue(text)]
    ELSE [ok |-> FALSE, value |-> 0]

\* strncmp(dirent->d_name, "cpu", 3) == 0
startsWithCpu(name) == Len(name) >= 3 /\ SubSeq(name, 1, 3) = <<"c", "p", "u">>

\* mutant of onDirent: a core number has to exceed maxCoreNum
onDirentGreater(maxCoreNum, name) ==
    IF startsWithCpu(name)
    THEN LET r == stringToLong(SubSeq(name, 4, Len(name)))
         IN  IF r.ok /\ r.value > maxCoreNum THEN r.value + 1 ELSE maxCoreNum
    ELSE maxCoreNum

\* the body of the readdir loop: maxCoreNum after the entry name
onDirent(maxCoreNum, name) ==
    IF startsWithCpu(name)
    THEN LET r == stringToLong(SubSeq(name, 4, Len(name)))
         IN  IF r.ok /\ r.value >= maxCoreNum THEN r.value + 1 ELSE maxCoreNum
    ELSE maxCoreNum

InitMaxCore ==
    /\ PegIdle
    /\ CpuIdle
    /\ ParseIdle
    /\ watermarkCall = <<>>
    /\ AttrsIdle
    /\ AgentsIdle
    /\ \E dir \in SUBSET SysfsEntries :
          maxCore = [dir |-> dir, unread |-> dir, maxCoreNum |-> -1, status |-> "opening",
                     result |-> 0]

\* opendir, which may fail
OpenDir ==
    /\ maxCore.status = "opening"
    /\ \E opened \in BOOLEAN :
          maxCore' = [maxCore EXCEPT !.status = IF opened THEN "reading" ELSE "fatal"]
    /\ UNCHANGED <<watermarkCall, attrsVars, agentVars, pegVars, cpuVars, parseVars>>

\* readdir returns one of the entries not yet returned
ReadDir ==
    /\ maxCore.status = "reading"
    /\ \E name \in maxCore.unread :
          maxCore' = [maxCore EXCEPT !.unread = @ \ {name},
                                     !.maxCoreNum = onDirent(@, name)]
    /\ UNCHANGED <<watermarkCall, attrsVars, agentVars, pegVars, cpuVars, parseVars>>

\* readdir returns nullptr: closedir, and the result or handleException
CloseDir ==
    /\ maxCore.status = "reading"
    /\ maxCore.unread = {}
    /\ maxCore' = IF maxCore.maxCoreNum < 1
                  THEN [maxCore EXCEPT !.status = "fatal"]
                  ELSE [maxCore EXCEPT !.status = "returned", !.result = maxCore.maxCoreNum]
    /\ UNCHANGED <<watermarkCall, attrsVars, agentVars, pegVars, cpuVars, parseVars>>

NextMaxCore == OpenDir \/ ReadDir \/ CloseDir

SpecMaxCore == InitMaxCore /\ [][NextMaxCore]_vars

\* the numbers n of the entries of dir named cpu<n>, n a decimal integer
CoreNumbers(dir) ==
    {stringToLong(SubSeq(name, 4, Len(name))).value :
        name \in {d \in dir : startsWithCpu(d) /\ stringToLong(SubSeq(d, 4, Len(d))).ok}}

\* the directory was opened and read to its end
Enumerated == maxCore.status = "returned" \/ (maxCore.status = "fatal" /\ maxCore.unread = {})

\* C28: getMaxCoreNum returns max(n) + 1 over the entries named cpu<n> with n
\* a decimal integer, in whatever order the entries were read and whatever
\* other entries there are; so N for the entries cpu0 .. cpu{N-1}; and with
\* no such entry it ends in handleException.
C28_MaxCorePlusOne ==
    Enumerated
        => IF CoreNumbers(maxCore.dir) = {}
           THEN maxCore.status = "fatal"
           ELSE /\ maxCore.status = "returned"
                /\ \E n \in CoreNumbers(maxCore.dir) :
                      /\ \A m \in CoreNumbers(maxCore.dir) : m <= n
                      /\ maxCore.result = n + 1

\* the directory cpu0, cpu1, cpu2, cpufreq, cpuidle has been enumerated as 3
C28_Witness ==
    /\ maxCore.status = "returned"
    /\ CoreNumbers(maxCore.dir) = {0, 1, 2}
    /\ Cpu(<<"f", "r", "e", "q">>) \in maxCore.dir
    /\ maxCore.result = 3

\* ------------------------------------------------------------------------
\* The cluster map after the collected properties are processed
\* ------------------------------------------------------------------------

\* the loop over collected_properties is over
Processed == orch \in {"processed", "joining", "parse", "update", "done"}

\* cpu c is among the collected properties, with a physical_package_id
ReportsCluster(collected, c) ==
    c \in DOMAIN collected /\ collected[c].physical_package_id # INVALID_PACKAGE_ID

\* the cpus whose collected properties have a package and name m a sibling
SiblingReporters(collected, m) ==
    {c \in DOMAIN collected : ReportsCluster(collected, c) /\ m \in collected[c].core_siblings}

\* cpuToCluster when the loop reaches the entry of cpu c
ClusterMapBefore(collected, c) ==
    processEntries(NoMaps, collected, {x \in DOMAIN collected : x < c}).cpuToCluster

MAXSIZE_PACK32 == 5
MAXSIZE_PACK64 == 10
MAX_FRAME_HEADER_SIZE == 9

\* CodeType::MAPS, CodeType::KALLSYMS, CodeType::COUNTERS
CodeType_MAPS == 4
CodeType_KALLSYMS == 9
CodeType_COUNTERS == 10

\* the sizes a PerfAttrsBuffer is made with
BufferSizes == {48, 64}

\* the texts handed in: what identifies one and its strlen
Blobs ==
    { [id |-> 1, strlen |-> 3], [id |-> 2, strlen |-> 11], [id |-> 3, strlen |-> 30],
      [id |-> 4, strlen |-> 60] }

\* pid and tid of the process a maps file is of
PidsAndTids == { <<1, 1>>, <<100, 101>> }

\* what is in a frame: the frame header, packed integers, raw bytes
HeaderItem == [kind |-> "header", value |-> 0, bytes |-> MAX_FRAME_HEADER_SIZE]
IntItem(v, n) == [kind |-> "int", value |-> v, bytes |-> n]
Int64Item(v, n) == [kind |-> "int64", value |-> v, bytes |-> n]
BytesItem(blob, n) == [kind |-> "bytes", value |-> blob.id, bytes |-> n]

\* the bytes packInt writes for a 32-bit value: seven bits of it per byte
packIntLen(v) ==
    IF -64 <= v /\ v < 64 THEN 1
    ELSE IF -8192 <= v /\ v < 8192 THEN 2
    ELSE IF -1048576 <= v /\ v < 1048576 THEN 3
    ELSE IF -134217728 <= v /\ v < 134217728 THEN 4
    ELSE MAXSIZE_PACK32

\* the bytes packInt64 writes: seven bits per byte as well, so as many as
\* packInt for the values of the model, which are all below 2^31
packInt64Len(v) == packIntLen(v)

RECURSIVE SumBytes(_)
SumBytes(items) == IF items = <<>> THEN 0 ELSE Head(items).bytes + SumBytes(Tail(items))

RECURSIVE SumFrames(_)
SumFrames(frames) ==
    IF frames = <<>> THEN 0 ELSE SumBytes(Head(frames)) + SumFrames(Tail(frames))

\* Buffer::bytesAvailable: the size less the frames the reader has yet to
\* take and the open frame
bytesAvailable(b) == b.size - SumFrames(b.committed) - SumBytes(b.frame)

\* Buffer::supportsWriteOfSize: bytes fit a buffer that holds nothing but the
\* start of a frame
supportsWriteOfSize(b, bytes) ==
    bytes > 0 /\ bytes <= b.size - (MAX_FRAME_HEADER_SIZE + MAXSIZE_PACK32)

\* Buffer::packInt, Buffer::writeBytes, Buffer::beginFrame, Buffer::endFrame
packInt(b, v) == [b EXCEPT !.frame = Append(@, IntItem(v, packIntLen(v)))]
packInt64(b, v) == [b EXCEPT !.frame = Append(@, Int64Item(v, packInt64Len(v)))]
writeBytes(b, blob, n) == [b EXCEPT !.frame = Append(@, BytesItem(blob, n))]
beginFrame(b) == [b EXCEPT !.frame = <<HeaderItem>>]
endFrame(b) == [b EXCEPT !.committed = Append(@, b.frame), !.frame = <<>>]

\* Buffer::waitForSpace returns when bytesAvailable is bytes at least: at
\* once, or after the reader has taken the ended frames
bufferWaitForSpace(b, bytes) ==
    IF bytesAvailable(b) >= bytes THEN b ELSE [b EXCEPT !.committed = <<>>]

\* PerfAttrsBuffer::PerfAttrsBuffer
PerfAttrsBuffer(size) ==
    packInt(beginFrame([size |-> size, committed |-> <<>>, frame |-> <<>>]), 0)

\* PerfAttrsBuffer::flush
flush(b) ==
    packInt(beginFrame(bufferWaitForSpace(endFrame(b),
                                          MAX_FRAME_HEADER_SIZE + MAXSIZE_PACK32)), 0)

\* PerfAttrsBuffer::waitForSpace
waitForSpace(b, bytes) ==
    bufferWaitForSpace(IF bytesAvailable(b) < bytes THEN flush(b) ELSE b, bytes)

\* mutant of marshalMaps: a maps file of any length is written
marshalMapsUnchecked(b, pid, tid, maps) ==
    LET mapsLen == maps.strlen + 1
        requiredLen == 3 * MAXSIZE_PACK32 + mapsLen
    IN  writeBytes(packInt(packInt(packInt(waitForSpace(b, requiredLen), CodeType_MAPS),
                                   pid), tid), maps, mapsLen)

\* PerfAttrsBuffer::marshalMaps
marshalMaps(b, pid, tid, maps) ==
    LET mapsLen == maps.strlen + 1
        requiredLen == 3 * MAXSIZE_PACK32 + mapsLen
    IN  IF ~supportsWriteOfSize(b, requiredLen) THEN b
        ELSE writeBytes(packInt(packInt(packInt(waitForSpace(b, requiredLen),
                                                CodeType_MAPS), pid), tid), maps, mapsLen)

\* PerfAttrsBuffer::marshalKallsyms
marshalKallsyms(b, kallsyms) ==
    LET kallsymsLen == kallsyms.strlen + 1
        requiredLen == 3 * MAXSIZE_PACK32 + kallsymsLen
    IN  IF ~supportsWriteOfSize(b, requiredLen) THEN b
        ELSE writeBytes(packInt(waitForSpace(b, requiredLen), CodeType_KALLSYMS),
                        kallsyms, kallsymsLen)

\* the bytes perfCounterHeader reserves
CountersLen(numberOfCounters) ==
    MAXSIZE_PACK32 + MAXSIZE_PACK64
        + numberOfCounters * (MAXSIZE_PACK32 + MAXSIZE_PACK32 + MAXSIZE_PACK64)
        + MAXSIZE_PACK32

\* mutant of perfCounterHeader: the space of the triples is not reserved
perfCounterHeaderOfHeaderOnly(b, time, numberOfCounters) ==
    packInt64(packInt(waitForSpace(b, CountersLen(0)), CodeType_COUNTERS), time)

\* PerfAttrsBuffer::perfCounterHeader, perfCounter, perfCounterFooter
perfCounterHeader(b, time, numberOfCounters) ==
    packInt64(packInt(waitForSpace(b, CountersLen(numberOfCounters)), CodeType_COUNTERS), time)
perfCounter(b, core, key, value) == packInt64(packInt(packInt(b, core), key), value)
perfCounterFooter(b) == packInt(b, -1)

\* no COUNTERS record to speak of: none was begun, or another call came
\* between its parts
NoCounters ==
    [clean |-> FALSE, closed |-> FALSE, time |-> 0, n |-> 0, triples |-> <<>>, begun |-> 0]

\* another call was made on the PerfAttrsBuffer
Interrupted(c) == [c EXCEPT !.clean = FALSE]

Called(op, blob) ==
    [op |-> op, requiredLen |-> 3 * MAXSIZE_PACK32 + blob.strlen + 1]

InitAttrs ==
    /\ PegIdle
    /\ CpuIdle
    /\ ParseIdle
    /\ watermarkCall = <<>>
    /\ maxCore = <<>>
    /\ AgentsIdle
    /\ \E size \in BufferSizes : buffer = PerfAttrsBuffer(size)
    /\ marshalCall = [op |-> "PerfAttrsBuffer", requiredLen |-> 0]
    /\ counters = NoCounters

MarshalMaps ==
    /\ \E p \in PidsAndTids, maps \in Blobs :
          /\ buffer' = marshalMaps(buffer, p[1], p[2], maps)
          /\ marshalCall' = Called("marshalMaps", maps)
    /\ counters' = Interrupted(counters)
    /\ UNCHANGED <<watermarkCall, maxCore, agentVars, pegVars, cpuVars, parseVars>>

MarshalKallsyms ==
    /\ \E kallsyms \in Blobs :
          /\ buffer' = marshalKallsyms(buffer, kallsyms)
          /\ marshalCall' = Called("marshalKallsyms", kallsyms)
    /\ counters' = Interrupted(counters)
    /\ UNCHANGED <<watermarkCall, maxCore, agentVars, pegVars, cpuVars, parseVars>>

Flush ==
    /\ buffer' = flush(buffer)
    /\ marshalCall' = [op |-> "flush", requiredLen |-> 0]
    /\ counters' = Interrupted(counters)
    /\ UNCHANGED <<watermarkCall, maxCore, agentVars, pegVars, cpuVars, parseVars>>

\* PerfAttrsBuffer::write: the reader sends the ended frames
WriteToSender ==
    /\ buffer.committed # <<>>
    /\ buffer' = [buffer EXCEPT !.committed = <<>>]
    /\ marshalCall' = [op |-> "write", requiredLen |-> 0]
    /\ UNCHANGED <<counters, watermarkCall, maxCore, agentVars, pegVars, cpuVars, parseVars>>

NextAttrs == MarshalMaps \/ MarshalKallsyms \/ Flush \/ WriteToSender

SpecAttrs == InitAttrs /\ [][NextAttrs]_vars

\* the call just made is marshalMaps or marshalKallsyms with a text that
\* buffer b cannot hold
OversizedBlobCall(c, b) ==
    /\ c.op \in {"marshalMaps", "marshalKallsyms"}
    /\ ~supportsWriteOfSize(b, c.requiredLen)

\* C30: marshalMaps and marshalKallsyms with a blob too large for the buffer
\* to ever hold write nothing: the ended frames and the open frame are as
\* they were before the call, so nothing was written and no flush happened.
C30_OversizedBlobIgnored ==
    [][OversizedBlobCall(marshalCall', buffer) => buffer' = buffer]_vars

\* marshalKallsyms has just refused a text while the open frame holds a maps
\* record and an ended frame waits for the reader
C30_Witness ==
    /\ marshalCall.op = "marshalKallsyms"
    /\ ~supportsWriteOfSize(buffer, marshalCall.requiredLen)
    /\ buffer.committed # <<>>
    /\ \E i \in DOMAIN buffer.frame : buffer.frame[i] = IntItem(CodeType_MAPS, 1)

\* ------------------------------------------------------------------------
\* Properties of initEvent: the read format
\* ------------------------------------------------------------------------

\* C31: for every event initialised as addEvent does it (no header),
\* read_format contains FORMAT_ID, and contains FORMAT_GROUP exactly when the
\* event is the leader, the capture is system-wide and the group requires a
\* leader; an event with FORMAT_GROUP has pinned = 1, disabled = 1 and
\* inherit = 0.
C31_ReadFormatGroupOfLeader ==
    (call.op = "initEvent" /\ ~call.is_header)
        => LET attr == events[1].attr
               grouped == /\ call.leader
                          /\ config.perfConfig.is_system_wide
                          /\ call.requires_leader
           IN  /\ PERF_FORMAT_ID \in attr.read_format
               /\ PERF_FORMAT_GROUP \in attr.read_format <=> grouped
               /\ attr.read_format \subseteq {PERF_FORMAT_ID, PERF_FORMAT_GROUP}
               /\ PERF_FORMAT_GROUP \in attr.read_format
                     => attr.pinned = 1 /\ attr.disabled = 1 /\ attr.inherit = 0

\* the tracepoint leader of a system-wide group that requires a leader
C31_Witness ==
    /\ call.op = "initEvent"
    /\ ~call.is_header /\ call.leader /\ call.requires_leader
    /\ config.perfConfig.is_system_wide
    /\ events[1].attr.type = PERF_TYPE_TRACEPOINT
    /\ events[1].attr.read_format = {PERF_FORMAT_ID, PERF_FORMAT_GROUP}
    /\ events[1].attr.pinned = 1
    /\ events[1].attr.inherit = 0

\* ------------------------------------------------------------------------
\* Specification SpecCounters: COUNTERS records written into a PerfAttrsBuffer
\* that holds a kallsyms record or nothing, with flush calls and the reader
\* in between
\* ------------------------------------------------------------------------

\* the most COUNTERS records begun in one behaviour
MaxRecords == 2

\* the times, the numbers of counters and the triples callers hand in
CounterTimes == {70000}
CounterCounts == {0, 1, 2}
CounterTriples == { <<0, 7, 9>>, <<1, 1073741824, 1073741824>> }

\* the sizes of the buffers the records are written into
CountersBufferSizes == {64, 96}

InitCounters ==
    /\ PegIdle
    /\ CpuIdle
    /\ ParseIdle
    /\ watermarkCall = <<>>
    /\ maxCore = <<>>
    /\ AgentsIdle
    /\ \E size \in CountersBufferSizes, kallsyms \in Blobs :
          buffer = marshalKallsyms(PerfAttrsBuffer(size), kallsyms)
    /\ marshalCall = [op |-> "marshalKallsyms", requiredLen |-> 0]
    /\ counters = NoCounters

\* perfCounterHeader; the call returns only if the buffer can ever have the
\* space it waits for
PerfCounterHeader ==
    /\ counters.begun < MaxRecords
    /\ \E time \in CounterTimes, n \in CounterCounts :
          /\ supportsWriteOfSize(buffer, CountersLen(n))
          /\ buffer' = perfCounterHeader(buffer, time, n)
          /\ marshalCall' = [op |-> "perfCounterHeader", requiredLen |-> CountersLen(n)]
          /\ counters' = [clean |-> TRUE, closed |-> FALSE, time |-> time, n |-> n,
                          triples |-> <<>>, begun |-> counters.begun + 1]
    /\ UNCHANGED <<watermarkCall, maxCore, agentVars, pegVars, cpuVars, parseVars>>

\* perfCounter, of a record that was begun and not ended; the model follows
\* a caller up to one triple more than it announced
PerfCounter ==
    /\ counters.clean /\ ~counters.closed
    /\ Len(counters.triples) <= counters.n
    /\ \E t \in CounterTriples :
          /\ buffer' = perfCounter(buffer, t[1], t[2], t[3])
          /\ counters' = [counters EXCEPT !.triples = Append(@, t)]
    /\ marshalCall' = [op |-> "perfCounter", requiredLen |-> 0]
    /\ UNCHANGED <<watermarkCall, maxCore, agentVars, pegVars, cpuVars, parseVars>>

PerfCounterFooter ==
    /\ counters.clean /\ ~counters.closed
    /\ buffer' = perfCounterFooter(buffer)
    /\ counters' = [counters EXCEPT !.closed = TRUE]
    /\ marshalCall' = [op |-> "perfCounterFooter", requiredLen |-> 0]
    /\ UNCHANGED <<watermarkCall, maxCore, agentVars, pegVars, cpuVars, parseVars>>

NextCounters ==
    PerfCounterHeader \/ PerfCounter \/ PerfCounterFooter \/ Flush \/ WriteToSender

SpecCounters == InitCounters /\ [][NextCounters]_vars

\* what the triples of a record are in a frame
RECURSIVE TripleItems(_)
TripleItems(triples) ==
    IF triples = <<>> THEN <<>>
    ELSE LET t == Head(triples)
         IN  <<IntItem(t[1], packIntLen(t[1])), IntItem(t[2], packIntLen(t[2])),
               Int64Item(t[3], packInt64Len(t[3]))>> \o TripleItems(Tail(triples))

\* what has been asked to be written of the record c
CountersItems(c) ==
    <<IntItem(CodeType_COUNTERS, packIntLen(CodeType_COUNTERS)),
      Int64Item(c.time, packInt64Len(c.time))>>
        \o TripleItems(c.triples)
        \o (IF c.closed THEN <<IntItem(-1, packIntLen(-1))>> ELSE <<>>)

\* the open frame ends with items
EndsWith(frame, items) ==
    /\ Len(frame) >= Len(items)
    /\ SubSeq(frame, Len(frame) - Len(items) + 1, Len(frame)) = items

\* C32: between perfCounterHeader(time, n) and perfCounterFooter, with at
\* most n perfCounter calls and no other call in between, no flush happens:
\* the COUNTERS code, the time, every triple and the terminating -1 are the
\* last items of the one open frame, in that order, and they are within the
\* size of the buffer.
C32_CountersInOneFrame ==
    (counters.clean /\ Len(counters.triples) <= counters.n)
        => /\ EndsWith(buffer.frame, CountersItems(counters))
           /\ bytesAvailable(buffer) >= 0

\* a record of two triples was ended in a frame that perfCounterHeader had
\* to begin by a flush
C32_Witness ==
    /\ counters.clean /\ counters.closed
    /\ counters.n = 2 /\ Len(counters.triples) = 2
    /\ buffer.committed # <<>>
    /\ Len(buffer.frame) = 2 + 2 + 6 + 1

\* ------------------------------------------------------------------------
\* Specification SpecAgents: agent_workers_process_manager_t. The handlers
\* posted on the strand run one at a time, in the order they were posted;
\* async_add_agent, agent processes ending and join() come from outside.
\* ------------------------------------------------------------------------

\* the most agents async_add_agent is called for
MaxAgents == 2

AgentPids == 1 .. MaxAgents

\* the members of the manager that its handlers read and write
Manager ==
    [agent_workers |-> agent_workers, created_any |-> created_any,
     terminated |-> terminated, io_context |-> io_context, notified |-> notified]

\* terminate()
terminate(m) ==
    [m EXCEPT !.terminated = TRUE, !.io_context = "stopped", !.notified = @ + 1]

\* on_strand_check_terminated()
on_strand_check_terminated(m) ==
    IF m.created_any /\ m.agent_workers = {} THEN terminate(m) ELSE m

\* the handler async_shutdown posts; the agents it asks to shut down
shutdownHandler(m) == IF m.agent_workers = {} THEN terminate(m) ELSE m
shutdownAsked(m) == m.agent_workers

\* mutant of addProceeds: an agent is spawned whether terminated or not
addProceedsAlways(m) == TRUE

\* the handler async_add_agent posts goes on to spawn unless terminated
addProceeds(m) == ~m.terminated

\* the handler the state observer posts for an agent that terminated
terminatedHandler(m, pid) ==
    on_strand_check_terminated([m EXCEPT !.agent_workers = @ \ {pid}])

\* an agent nobody has asked for
NoAgent == [st |-> "none", late |-> FALSE, asked |-> FALSE]

\* a handler as it is posted on the strand; early says that io_context.stop()
\* had not been called by then
Posted(kind, pid) == [kind |-> kind, pid |-> pid, early |-> io_context = "running"]

InitAgents ==
    /\ PegIdle
    /\ CpuIdle
    /\ ParseIdle
    /\ watermarkCall = <<>>
    /\ maxCore = <<>>
    /\ AttrsIdle
    /\ agent_workers = {}
    /\ created_any = FALSE
    /\ terminated = FALSE
    /\ io_context = "running"
    /\ strand = <<>>
    /\ agentState = [p \in AgentPids |-> NoAgent]
    /\ joinRequested = FALSE
    /\ notified = 0

Commits(m) ==
    /\ agent_workers' = m.agent_workers
    /\ created_any' = m.created_any
    /\ terminated' = m.terminated
    /\ io_context' = m.io_context
    /\ notified' = m.notified

NotAgents == <<watermarkCall, maxCore, attrsVars, pegVars, cpuVars, parseVars>>

\* join(): async_shutdown posts its handler on the strand
JoinRequest ==
    /\ ~joinRequested
    /\ joinRequested' = TRUE
    /\ strand' = Append(strand, Posted("shutdown", 0))
    /\ UNCHANGED <<agent_workers, created_any, terminated, io_context, notified, agentState,
                   NotAgents>>

\* async_add_agent: post_on(strand)
AsyncAddAgent(p) ==
    /\ agentState[p].st = "none"
    /\ agentState' = [agentState EXCEPT ![p] = [st |-> "posted", late |-> terminated,
                                                asked |-> FALSE]]
    /\ strand' = Append(strand, Posted("add", p))
    /\ UNCHANGED <<agent_workers, created_any, terminated, io_context, notified, joinRequested,
                   NotAgents>>

\* the strand runs the handler posted first. After io_context.stop() nothing
\* that is posted is run any more; a handler that was posted before it may
\* still be run, by the thread that is running the handlers of the strand.
RunStrand ==
    /\ strand # <<>>
    /\ io_context = "running" \/ Head(strand).early
    /\ LET h == Head(strand)
       IN  CASE h.kind = "shutdown" ->
                   /\ Commits(shutdownHandler(Manager))
                   /\ agentState' = [p \in AgentPids |->
                                        IF p \in shutdownAsked(Manager)
                                        THEN [agentState[p] EXCEPT !.asked = TRUE]
                                        ELSE agentState[p]]
             [] h.kind = "add" ->
                   /\ Commits(Manager)
                   /\ agentState' = [agentState EXCEPT ![h.pid].st =
                                        IF addProceeds(Manager) THEN "spawning" ELSE "refused",
                                                        ![h.pid].late = @ \/ terminated]
             [] h.kind = "terminated" ->
                   /\ Commits(terminatedHandler(Manager, h.pid))
                   /\ agentState' = agentState
    /\ strand' = Tail(strand)
    /\ UNCHANGED <<joinRequested, NotAgents>>

\* async_spawn_agent_worker is done: the spawn failed, or the worker is stored
SpawnDone(p) ==
    /\ agentState[p].st = "spawning"
    /\ \E spawned \in BOOLEAN :
          IF spawned
          THEN /\ created_any' = TRUE
               /\ agent_workers' = agent_workers \cup {p}
               /\ agentState' = [agentState EXCEPT ![p].st = "running"]
          ELSE /\ agentState' = [agentState EXCEPT ![p].st = "failed"]
               /\ UNCHANGED <<created_any, agent_workers>>
    /\ UNCHANGED <<terminated, io_context, notified, strand, joinRequested, NotAgents>>

\* the agent process ends and its worker becomes terminated: the state
\* observer posts its handler on the strand
AgentTerminates(p) ==
    /\ agentState[p].st = "running"
    /\ agentState' = [agentState EXCEPT ![p].st = "exited"]
    /\ strand' = Append(strand, Posted("terminated", p))
    /\ UNCHANGED <<agent_workers, created_any, terminated, io_context, notified, joinRequested,
                   NotAgents>>

NextAgents ==
    \/ JoinRequest
    \/ RunStrand
    \/ \E p \in AgentPids : AsyncAddAgent(p) \/ SpawnDone(p) \/ AgentTerminates(p)

SpecAgents == InitAgents /\ [][NextAgents]_vars

\* the io_context runs what is posted while it is not stopped, a spawn comes
\* to an end, and an agent that was asked to shut down ends
FairSpecAgents ==
    /\ SpecAgents
    /\ WF_vars(RunStrand /\ io_context = "running")
    /\ \A p \in AgentPids : WF_vars(SpawnDone(p) /\ io_context = "running")
    /\ \A p \in AgentPids : WF_vars(AgentTerminates(p) /\ agentState[p].asked)

\* C33 as stated: once join() is requested, and given that every agent that
\* is asked to shut down ends, the manager is terminated in the end, however
\* the shutdown request, async_add_agent calls and agents ending interleave.
C33_JoinEndsInTerminated == joinRequested ~> terminated

C40_NotifiedOnceWhenEmpty ==
    /\ [](notified <= 1)
    /\ [][notified' # notified => agent_workers' = {}]_vars

\* ------------------------------------------------------------------------
\* createCpuGroupLeader without the id of the sched_switch tracepoint
\* ------------------------------------------------------------------------

\* the capture is system-wide, tracepoints can be read, and the id of
\* sched_switch could not be read
SchedSwitchIdMissing ==
    /\ config.perfConfig.is_system_wide
    /\ config.perfConfig.can_access_tracepoints
    /\ config.schedSwitchId = UNKNOWN_TRACEPOINT_ID

\* C35: when the capture is system-wide, tracepoints are accessible and the id
\* of the sched_switch tracepoint is the unknown one, createGroupLeader on a
\* PER_CLUSTER_CPU group returns false and does nothing else: the events of the
\* group, the mapping tracker and the dummy key counter are as before the call.
C35_NoIdNoLeader ==
    [][(/\ SchedSwitchIdMissing
        /\ groupType = PER_CLUSTER_CPU
        /\ call'.op = "createGroupLeader")
          => /\ ~call'.ret
             /\ events' = events
             /\ tracker' = tracker
             /\ dummyKeyCounter' = dummyKeyCounter
             /\ drawn' = drawn]_vars

\* the call has been refused for the second CPU group built over the config,
\* after an uncore group got its leader and a dummy key
C35_Witness ==
    /\ SchedSwitchIdMissing
    /\ groupType = PER_CLUSTER_CPU
    /\ call.op = "createGroupLeader"
    /\ ~call.ret
    /\ events = <<>>
    /\ tracker # <<>>
    /\ dummyKeyCounter < config.dummyKeyCounter
    /\ \E i \in DOMAIN groups : groups[i].type = PER_CLUSTER_CPU /\ groups[i].events = <<>>

\* ------------------------------------------------------------------------
\* createGroupLeader refused
\* ------------------------------------------------------------------------

\* C36: a call of createGroupLeader that returns false leaves the configurer as
\* it was before the call, whatever the kind of the group and whatever the
\* group held: the events of the group, the mapping tracker and the dummy key
\* counter are unchanged.
C36_RefusedLeaderChangesNothing ==
    [][(call'.op = "createGroupLeader" /\ ~call'.ret)
          => /\ events' = events
             /\ tracker' = tracker
             /\ dummyKeyCounter' = dummyKeyCounter]_vars

\* ------------------------------------------------------------------------
\* The divisor of calculate_aux_watermark
\* ------------------------------------------------------------------------

\* C37: for every event added with auxiliary data the aux watermark is well
\* defined: the sample period calculate_aux_watermark divides by, which is the
\* periodOrFreq the caller gave, is not 0, and the division stops no process.
C37_AuxPeriodNeverZero ==
    \A i \in DOMAIN added :
        added[i].hasAuxData
            => /\ events[i].attr.sample_period # 0
               /\ ~call.trapped

\* ------------------------------------------------------------------------
\* Specification SpecMarshal: the records of PerfAttrsBuffer written one
\* after the other, with flush calls and the reader in between
\* ------------------------------------------------------------------------

\* CodeType::PEA, KEYS, COMM, ONLINE_CPU, OFFLINE_CPU
CodeType_PEA == 1
CodeType_KEYS == 2
CodeType_COMM == 5
CodeType_ONLINE_CPU == 7
CodeType_OFFLINE_CPU == 8

\* the most items of the open frame after which another record is begun
MaxFrameItems == 6

\* the sizes of the buffers, the perf_event_attr structures (pea->size is
\* PERF_ATTR_SIZE_VER0), the id and key arrays, the names and the cpus handed in
MarshalBufferSizes == {48, 96}
Peas == { [id |-> 5, size |-> 64] }
KeyLists == { <<>>, << <<1073741824, 1>> >>, << <<1073741824, 1>>, <<5, -2>> >> }
Names == { [id |-> 6, strlen |-> 3], [id |-> 7, strlen |-> 15] }
CpuNumbers == {0, 200}

\* PerfAttrsBuffer::marshalPea
marshalPeaLen(pea) == 2 * MAXSIZE_PACK32 + pea.size
marshalPea(b, pea, key) ==
    packInt(writeBytes(packInt(waitForSpace(b, marshalPeaLen(pea)), CodeType_PEA),
                       pea, pea.size), key)

\* the loop of marshalKeys (lines 64-67) over ids[i], keys[i]
RECURSIVE packKeys(_, _)
packKeys(b, pairs) ==
    IF pairs = <<>> THEN b
    ELSE packKeys(packInt(packInt64(b, Head(pairs)[1]), Head(pairs)[2]), Tail(pairs))

\* PerfAttrsBuffer::marshalKeys
marshalKeysLen(count) == 2 * MAXSIZE_PACK32 + count * (MAXSIZE_PACK32 + MAXSIZE_PACK64)
marshalKeys(b, pairs) ==
    packKeys(packInt(packInt(waitForSpace(b, marshalKeysLen(Len(pairs))), CodeType_KEYS),
                     Len(pairs)), pairs)

\* PerfAttrsBuffer::marshalComm
marshalCommLen(image, comm) == 3 * MAXSIZE_PACK32 + (image.strlen + 1) + (comm.strlen + 1)
marshalComm(b, pid, tid, image, comm) ==
    writeBytes(writeBytes(packInt(packInt(packInt(waitForSpace(b, marshalCommLen(image, comm)),
                                                  CodeType_COMM), pid), tid),
                          image, image.strlen + 1), comm, comm.strlen + 1)

\* PerfAttrsBuffer::onlineCPU, PerfAttrsBuffer::offlineCPU
cpuLen == MAXSIZE_PACK32 + MAXSIZE_PACK64
onlineCPU(b, time, cpu) ==
    packInt(packInt64(packInt(waitForSpace(b, cpuLen), CodeType_ONLINE_CPU), time), cpu)
offlineCPU(b, time, cpu) ==
    packInt(packInt64(packInt(waitForSpace(b, cpuLen), CodeType_OFFLINE_CPU), time), cpu)

InitMarshal ==
    /\ PegIdle
    /\ CpuIdle
    /\ ParseIdle
    /\ watermarkCall = <<>>
    /\ maxCore = <<>>
    /\ AgentsIdle
    /\ \E size \in MarshalBufferSizes : buffer = PerfAttrsBuffer(size)
    /\ marshalCall = [op |-> "PerfAttrsBuffer", requiredLen |-> 0]
    /\ counters = NoCounters

\* another record is begun while the open frame is short and at most one
\* ended frame waits for the reader
RoomForRecord == Len(buffer.frame) < MaxFrameItems /\ Len(buffer.committed) <= 1

\* a record has been written by op, which waited for requiredLen bytes.  A
\* call whose waitForSpace the buffer can never satisfy does not return.
Marshalled(op, requiredLen, b) ==
    /\ supportsWriteOfSize(buffer, requiredLen)
    /\ buffer' = b
    /\ marshalCall' = [op |-> op, requiredLen |-> requiredLen]
    /\ counters' = Interrupted(counters)
    /\ UNCHANGED <<watermarkCall, maxCore, agentVars, pegVars, cpuVars, parseVars>>

MarshalPea ==
    /\ RoomForRecord
    /\ \E pea \in Peas, key \in {1, -2} :
           Marshalled("marshalPea", marshalPeaLen(pea), marshalPea(buffer, pea, key))

MarshalKeys ==
    /\ RoomForRecord
    /\ \E pairs \in KeyLists :
           Marshalled("marshalKeys", marshalKeysLen(Len(pairs)), marshalKeys(buffer, pairs))

MarshalComm ==
    /\ RoomForRecord
    /\ \E p \in PidsAndTids, image \in Names, comm \in Names :
           Marshalled("marshalComm", marshalCommLen(image, comm),
                      marshalComm(buffer, p[1], p[2], image, comm))

OnlineCPU ==
    /\ RoomForRecord
    /\ \E time \in CounterTimes, cpu \in CpuNumbers :
           Marshalled("onlineCPU", cpuLen, onlineCPU(buffer, time, cpu))

OfflineCPU ==
    /\ RoomForRecord
    /\ \E time \in CounterTimes, cpu \in CpuNumbers :
           Marshalled("offlineCPU", cpuLen, offlineCPU(buffer, time, cpu))

MarshalMapsRecord == RoomForRecord /\ MarshalMaps

MarshalKallsymsRecord == RoomForRecord /\ MarshalKallsyms

NextMarshal ==
    \/ MarshalPea \/ MarshalKeys \/ MarshalComm \/ OnlineCPU \/ OfflineCPU
    \/ MarshalMapsRecord \/ MarshalKallsymsRecord \/ Flush \/ WriteToSender

SpecMarshal == InitMarshal /\ [][NextMarshal]_vars

\* the most bytes an item can take: MAXSIZE_PACK32 for a packed 32-bit
\* integer, MAXSIZE_PACK64 for a packed 64-bit integer, its length for raw bytes
MaxBytes(item) ==
    IF item.kind = "int" THEN MAXSIZE_PACK32
    ELSE IF item.kind = "int64" THEN MAXSIZE_PACK64
    ELSE item.bytes

RECURSIVE SumMaxBytes(_)
SumMaxBytes(items) ==
    IF items = <<>> THEN 0 ELSE MaxBytes(Head(items)) + SumMaxBytes(Tail(items))

MarshalOps ==
    {"marshalPea", "marshalKeys", "marshalComm", "marshalMaps", "marshalKallsyms",
     "onlineCPU", "offlineCPU"}

\* the items that were put behind what waitForSpace(before, requiredLen) left
\* in the open frame
RecordWritten(before, requiredLen, after) ==
    SubSeq(after.frame, Len(waitForSpace(before, requiredLen).frame) + 1, Len(after.frame))

\* C38: every marshal operation that writes a record has reserved, by
\* waitForSpace, at least the most bytes the items of the record can take,
\* every packed 32-bit integer counted as MAXSIZE_PACK32 and every packed 64-bit
\* integer as MAXSIZE_PACK64; this for marshalPea, marshalKeys, marshalComm,
\* marshalMaps, marshalKallsyms, onlineCPU and offlineCPU.
C38_ReservedCoversWritten ==
    [][(marshalCall'.op \in MarshalOps /\ buffer' # buffer)
          => SumMaxBytes(RecordWritten(buffer, marshalCall'.requiredLen, buffer'))
                <= marshalCall'.requiredLen]_vars

\* ------------------------------------------------------------------------
\* The end of the identification threads
\* ------------------------------------------------------------------------

\* the positions of readCpuInfo inside the block that declares the mutex, the
\* map of collected properties and the threads
InsideBlock ==
    {"start", "spawned", "sleeping", "waited", "collected", "processing", "processed",
     "joining"}

\* C39: the identification threads are torn down without deadlock: while
\* readCpuInfo waits for the threads to stop it does not hold the mutex of the
\* collected properties; a thread that is inside its callback, holding the
\* mutex, finds readCpuInfo still inside the block, so the map it writes is
\* still there; and the wait for the threads to stop always ends.
C39_TeardownCannotDeadlock ==
    /\ [](orch = "joining" => Orchestrator \notin mutex)
    /\ [](\A c \in Cpus : thread[c] = "locked" => orch \in InsideBlock)
    /\ (orch = "joining") ~> (orch = "parse")

\* after a timeout readCpuInfo waits for the threads to stop while one of
\* them is inside its callback and another has not called back yet
C39_Witness ==
    /\ orch = "joining"
    /\ timedOut
    /\ shutdown
    /\ \E c \in Cpus : thread[c] = "locked" /\ mutex = {c}
    /\ \E c \in Cpus : thread[c] = "running"

====
